---- MODULE Spec2Model ----
(***************************************************************************)
(* Model of the kyverno-artifact-operator: the controller that projects    *)
(* each declared KyvernoArtifact into one watcher pod, the watcher's       *)
(* reconciliation loop, and the policy garbage collector.                  *)
(***************************************************************************)
EXTENDS Integers, Sequences, FiniteSets, TLC

VARIABLES
    arts,           \* declared KyvernoArtifacts: name -> Some(record), or None
    pods,           \* the pods of the namespace (a set of pod records)
    watcherImage,   \* r.Config.WatcherImage of the running controller
    queue,          \* reconcile requests waiting in the controller's work queue
    nextUid,        \* next UID the API server hands out
    artifactCount,  \* gauge kyverno_artifacts_total
    artifactsByPhase, \* gauge vector kyverno_artifacts_by_phase
    lastResult,     \* what the last Reconcile call did and returned
    envOps,         \* number of user / cluster operations performed so far
    policies,       \* Policy / ClusterPolicy objects: id -> Some(record), or None
    orphanedPolicies, \* the GC's map: policy key -> when first seen orphaned
    gcPc,           \* position of the GC inside collectGarbage
    gcList,         \* the listed policies the running GC cycle has still to visit
    gcLast,         \* what the GC did with the policy it visited last
    firstObserved,  \* history: when the GC first saw the present object orphaned
    wEnv,           \* the environment variables of the watcher process
    config,         \* the watcher's Config, loaded from its environment
    registryLatest, \* the newest tag the registry reports for the package
    lastFile,       \* content of <stateDir>/last_seen ("": absent or empty)
    wPc,            \* position of the watcher: asleep, or applying manifests
    wLatest,        \* watchLoop's local variable latest
    wChanged,       \* watchLoop's local variable isTagChanged
    wToApply,       \* the files applyManifests has still to process
    wApplied,       \* history: files applied to the cluster in this cycle
    wFailed,        \* history: files whose application failed in the last cycle
    wWrote,         \* history: this cycle wrote the last-applied-tag file
    wEffects,       \* history: what this cycle did outside the process so far
    wLast,          \* how the last watchLoop call went
    sigPc,          \* position of the termination handler of the watcher process
    sigList,        \* the listed resources the handler has still to delete
    sigFailed,      \* history: an API call of the handler returned an error
    sweepPc,        \* position of the watcher's startup and its sweep of managed pods
    sweepList,      \* the listed pods the startup sweep has still to look at
    rv,             \* the resourceVersion of each policy object, where the model
                    \* follows the API calls of applyResource one by one
    wGot            \* what applyResource's Get returned for the file in hand

ctrlVars == <<arts, pods, watcherImage, queue, nextUid, artifactCount,
              artifactsByPhase, lastResult>>

gcVars == <<orphanedPolicies, gcPc, gcList, gcLast, firstObserved>>

sigVars == <<sigPc, sigList, sigFailed>>

sweepVars == <<sweepPc, sweepList>>

applyVars == <<rv, wGot>>

workerVars == <<wEnv, config, registryLatest, lastFile, wPc, wLatest, wChanged, wToApply,
                wApplied, wFailed, wWrote, wEffects, wLast, sigVars, sweepVars, applyVars>>

vars == <<ctrlVars, envOps, policies, gcVars, workerVars>>

----------------------------------------------------------------------------
(* Bounds of the model *)

\* user and cluster operations (creations, edits, deletions, phase changes)
MaxEnvOps == 3

\* writes of one policy object followed by the model of applyResource's calls
MaxVersion == 3

----------------------------------------------------------------------------
(* Values *)

\* an absent environment variable or name
NIL == "<nil>"

\* Go pointer fields (*string, *int32, *bool) and objects that may be absent
None == <<>>
Some(v) == <<v>>
IsSet(o) == Len(o) > 0
Val(o) == o[1]

ArtNames == {"a", "ab"}

Images == {"img1", "img2"}

UrlValues == {None, Some(""), Some("r/p"), Some("r/p:v1")}
IntervalValues == {None, Some(60), Some(120)}
ProviderValues == {None, Some(""), Some("artifactory")}
OptBool == {None, Some(TRUE), Some(FALSE)}

providerGitHub == "github"

PodPhases == {"Pending", "Running", "Succeeded", "Failed"}
PhaseLabels == PodPhases \cup {"Unknown"}

\* fmt.Sprintf("%d", i)
FormatInt(i) ==
    CASE i = 0 -> "0"
      [] i = 30 -> "30"
      [] i = 60 -> "60"
      [] i = 120 -> "120"

\* fmt.Sprintf("%t", b)
FormatBool(b) == IF b THEN "true" ELSE "false"

\* fmt.Sprintf("kyverno-artifact-manager-%s", name)
PodName(n) == "kyverno-artifact-manager-" \o n

ArtifactSpecs ==
    [url : UrlValues, pollingInterval : IntervalValues, provider : ProviderValues,
     deletePoliciesOnTermination : OptBool, reconcilePoliciesFromChecksum : OptBool,
     pollForTagChanges : OptBool]

\* the declarations a user creates in this model; edits reach the other ones
CreateSpecs ==
    { s \in ArtifactSpecs :
        /\ s.url \in {None, Some("r/p")}
        /\ s.pollingInterval = None
        /\ s.provider = None
        /\ s.deletePoliciesOnTermination = None
        /\ s.reconcilePoliciesFromChecksum = None
        /\ s.pollForTagChanges = None }

SpecFields == {"url", "pollingInterval", "provider", "deletePoliciesOnTermination",
               "reconcilePoliciesFromChecksum", "pollForTagChanges"}

FieldValues(f) ==
    CASE f = "url" -> UrlValues
      [] f = "pollingInterval" -> IntervalValues
      [] f = "provider" -> ProviderValues
      [] OTHER -> OptBool

----------------------------------------------------------------------------
(* Controller: projection of a declaration into the watcher pod *)

ProjectedUrl(s) == IF IsSet(s.url) THEN Val(s.url) ELSE ""

ProjectedInterval(s) ==
    IF IsSet(s.pollingInterval) THEN FormatInt(Val(s.pollingInterval)) ELSE "60"

ProjectedProvider(s) ==
    IF IsSet(s.provider) /\ Val(s.provider) # "" THEN Val(s.provider)
    ELSE providerGitHub

ProjectedPollForTagChanges(s) ==
    IF IsSet(s.pollForTagChanges) THEN FormatBool(Val(s.pollForTagChanges))
    ELSE "true"

\* the environment variables with a literal value that Reconcile gives a new pod
\* (NIL: the variable is not emitted)
ProjectedEnv(n, s, image) ==
    [ IMAGE_BASE |-> Val(s.url),
      POLL_INTERVAL |-> ProjectedInterval(s),
      PROVIDER |-> ProjectedProvider(s),
      ARTIFACT_NAME |-> n,
      WATCHER_DELETE_POLICIES_ON_TERMINATION |->
          IF IsSet(s.deletePoliciesOnTermination)
             /\ Val(s.deletePoliciesOnTermination)
          THEN "true" ELSE NIL,
      WATCHER_CHECKSUM_RECONCILIATION_ENABLED |->
          IF IsSet(s.reconcilePoliciesFromChecksum)
          THEN FormatBool(Val(s.reconcilePoliciesFromChecksum)) ELSE NIL,
      WATCHER_POLL_FOR_TAG_CHANGES_ENABLED |->
          IF IsSet(s.pollForTagChanges)
          THEN FormatBool(Val(s.pollForTagChanges)) ELSE NIL,
      WATCHER_IMAGE |-> image ]

\* controllerutil.SetControllerReference
ControllerRef(n, a) ==
    [name |-> n, uid |-> a.uid, controller |-> TRUE, blockOwnerDeletion |-> TRUE]

WatcherPodLabels(n) ==
    ("app.kubernetes.io/name" :> "kyverno-artifact-watcher")
    @@ ("app.kubernetes.io/instance" :> n)
    @@ ("app.kubernetes.io/managed-by" :> "kyverno-artifact-operator")
    @@ ("app.kubernetes.io/component" :> "watcher")

\* a pod created without SetControllerReference
NewPodNoOwner(n, a, image, uid) ==
    [ name |-> PodName(n),
      uid |-> uid,
      labels |-> WatcherPodLabels(n),
      ownerReferences |-> <<>>,
      image |-> image,
      env |-> ProjectedEnv(n, a.spec, image),
      phase |-> "Pending" ]

NewPod(n, a, image, uid) ==
    [ name |-> PodName(n),
      uid |-> uid,
      labels |-> WatcherPodLabels(n),
      ownerReferences |-> <<ControllerRef(n, a)>>,
      image |-> image,
      env |-> ProjectedEnv(n, a.spec, image),
      phase |-> "Pending" ]

\* envMap[name] of the drift check: a variable that is absent or empty reads ""
EnvMapValue(pod, name) ==
    IF pod.env[name] = NIL THEN "" ELSE pod.env[name]

\* a drift check that overlooks the watcher image
NeedsUpdateNoImage(a, pod, image) ==
    \/ EnvMapValue(pod, "IMAGE_BASE") # ProjectedUrl(a.spec)
    \/ EnvMapValue(pod, "POLL_INTERVAL") # ProjectedInterval(a.spec)
    \/ EnvMapValue(pod, "PROVIDER") # ProjectedProvider(a.spec)
    \/ (IF EnvMapValue(pod, "WATCHER_POLL_FOR_TAG_CHANGES_ENABLED") = ""
        THEN "true"
        ELSE pod.env["WATCHER_POLL_FOR_TAG_CHANGES_ENABLED"])
           # ProjectedPollForTagChanges(a.spec)

\* a drift check that overlooks POLL_INTERVAL
NeedsUpdateNoInterval(a, pod, image) ==
    \/ EnvMapValue(pod, "IMAGE_BASE") # ProjectedUrl(a.spec)
    \/ EnvMapValue(pod, "PROVIDER") # ProjectedProvider(a.spec)
    \/ (IF EnvMapValue(pod, "WATCHER_POLL_FOR_TAG_CHANGES_ENABLED") = ""
        THEN "true"
        ELSE pod.env["WATCHER_POLL_FOR_TAG_CHANGES_ENABLED"])
           # ProjectedPollForTagChanges(a.spec)
    \/ pod.image # image

NeedsUpdate(a, pod, image) ==
    \/ EnvMapValue(pod, "IMAGE_BASE") # ProjectedUrl(a.spec)
    \/ EnvMapValue(pod, "POLL_INTERVAL") # ProjectedInterval(a.spec)
    \/ EnvMapValue(pod, "PROVIDER") # ProjectedProvider(a.spec)
    \/ (IF EnvMapValue(pod, "WATCHER_POLL_FOR_TAG_CHANGES_ENABLED") = ""
        THEN "true"
        ELSE pod.env["WATCHER_POLL_FOR_TAG_CHANGES_ENABLED"])
           # ProjectedPollForTagChanges(a.spec)
    \/ pod.image # image

----------------------------------------------------------------------------
(* Cluster API and controller-runtime event plumbing *)

PodsNamed(ps, name) == { p \in ps : p.name = name }

\* a controller that does not watch the pods it owns
OwnerRequestsNone(p) == {}

\* Owns(&corev1.Pod{}): an event on a pod enqueues its controller owner, by name
OwnerRequests(p) ==
    { p.ownerReferences[i].name : i \in { j \in DOMAIN p.ownerReferences :
                                             p.ownerReferences[j].controller } }

\* updateMetrics: the phase label under which an artifact is counted
PhaseOf(ps, n) ==
    IF PodsNamed(ps, PodName(n)) = {} THEN "Unknown"
    ELSE (CHOOSE p \in PodsNamed(ps, PodName(n)) : TRUE).phase

CountByPhase(as, ps) ==
    [ ph \in PhaseLabels |->
        Cardinality({ n \in ArtNames : IsSet(as[n]) /\ PhaseOf(ps, n) = ph }) ]

CountArtifacts(as) == Cardinality({ n \in ArtNames : IsSet(as[n]) })

----------------------------------------------------------------------------
(* Controller: Reconcile *)

Result(n, what, err) == [name |-> n, did |-> what, err |-> err]

UpdateMetrics(ps) ==
    /\ artifactCount' = CountArtifacts(arts)
    /\ artifactsByPhase' = CountByPhase(arts, ps)

\* a check that takes only Failed for a terminal phase
IsTerminalFailedOnly(pod) == pod.phase = "Failed"

\* pod.Status.Phase == PodFailed || pod.Status.Phase == PodSucceeded
IsTerminal(pod) == pod.phase = "Failed" \/ pod.phase = "Succeeded"

\* a not-found return that cleans up the pod of the vanished declaration
notFoundDeletesPod(ps, n) == ps \ PodsNamed(ps, PodName(n))

\* Reconcile: the declaration is not found; the call returns and leaves the
\* pods to the owner-reference cascade
notFound(ps, n) == ps

Reconcile(n) ==
    /\ n \in ArtNames
    /\ UNCHANGED <<arts, watcherImage, envOps, policies, gcVars, workerVars>>
    /\ IF ~IsSet(arts[n])
       THEN \* the declaration is gone: success, nothing to do
            /\ lastResult' = Result(n, "notfound", FALSE)
            /\ queue' = queue \ {n}
            /\ pods' = notFound(pods, n)
            /\ UNCHANGED <<nextUid, artifactCount, artifactsByPhase>>
       ELSE LET a == Val(arts[n])
                found == PodsNamed(pods, PodName(n))
            IN  IF found = {}
                THEN IF ~IsSet(a.spec.url) \/ Val(a.spec.url) = ""
                     THEN \* an error return: the request is queued again
                          /\ lastResult' = Result(n, "nourl", TRUE)
                          /\ queue' = queue \cup {n}
                          /\ UNCHANGED <<pods, nextUid, artifactCount, artifactsByPhase>>
                     ELSE LET pod == NewPod(n, a, watcherImage, nextUid)
                          IN  /\ pods' = pods \cup {pod}
                              /\ nextUid' = nextUid + 1
                              /\ queue' = (queue \ {n}) \cup OwnerRequests(pod)
                              /\ lastResult' = Result(n, "created", FALSE)
                              /\ UpdateMetrics(pods \cup {pod})
                ELSE LET pod == CHOOSE p \in found : TRUE
                     IN  IF IsTerminal(pod)
                         THEN /\ pods' = pods \ {pod}
                              /\ queue' = (queue \ {n}) \cup OwnerRequests(pod)
                              /\ lastResult' = Result(n, "deletedTerminal", FALSE)
                              /\ UNCHANGED <<nextUid, artifactCount, artifactsByPhase>>
                         ELSE IF NeedsUpdate(a, pod, watcherImage)
                         THEN /\ pods' = pods \ {pod}
                              /\ queue' = (queue \ {n}) \cup OwnerRequests(pod)
                              /\ lastResult' = Result(n, "deletedDrift", FALSE)
                              /\ UNCHANGED <<nextUid, artifactCount, artifactsByPhase>>
                         ELSE /\ lastResult' = Result(n, "kept", FALSE)
                              /\ queue' = queue \ {n}
                              /\ UpdateMetrics(pods)
                              /\ UNCHANGED <<pods, nextUid>>

----------------------------------------------------------------------------
(* Users and the cluster around the controller *)

EnvStep ==
    /\ envOps < MaxEnvOps
    /\ envOps' = envOps + 1

\* kubectl apply of a new KyvernoArtifact
CreateArtifact(n, s) ==
    /\ EnvStep
    /\ UNCHANGED <<policies, gcVars, workerVars>>
    /\ ~IsSet(arts[n])
    /\ arts' = [arts EXCEPT ![n] = Some([uid |-> nextUid, spec |-> s])]
    /\ nextUid' = nextUid + 1
    /\ queue' = queue \cup {n}
    /\ UNCHANGED <<pods, watcherImage, artifactCount, artifactsByPhase, lastResult>>

\* a user edits one field of the declaration's spec
EditArtifact(n, f, v) ==
    /\ EnvStep
    /\ UNCHANGED <<policies, gcVars, workerVars>>
    /\ IsSet(arts[n])
    /\ Val(arts[n]).spec[f] # v
    /\ arts' = [arts EXCEPT ![n] = Some([Val(arts[n]) EXCEPT !.spec[f] = v])]
    /\ queue' = queue \cup {n}
    /\ UNCHANGED <<pods, watcherImage, nextUid, artifactCount, artifactsByPhase,
                   lastResult>>

\* a user deletes the declaration; its pod stays until the cluster's
\* owner-reference cascade removes it
DeleteArtifact(n) ==
    /\ EnvStep
    /\ UNCHANGED <<policies, gcVars, workerVars>>
    /\ IsSet(arts[n])
    /\ arts' = [arts EXCEPT ![n] = None]
    /\ queue' = queue \cup {n}
    /\ UNCHANGED <<pods, watcherImage, nextUid, artifactCount, artifactsByPhase,
                   lastResult>>

LiveUids == { Val(arts[n]).uid : n \in { m \in ArtNames : IsSet(arts[m]) } }

\* the cluster's garbage collector removes a pod none of whose owners exists
CascadeDelete(p) ==
    /\ p \in pods
    /\ Len(p.ownerReferences) > 0
    /\ \A i \in DOMAIN p.ownerReferences : p.ownerReferences[i].uid \notin LiveUids
    /\ pods' = pods \ {p}
    /\ queue' = queue \cup OwnerRequests(p)
    /\ UNCHANGED <<arts, watcherImage, nextUid, artifactCount, artifactsByPhase,
                   lastResult, envOps, policies, gcVars, workerVars>>

\* a pod is deleted by a user or by a sibling watcher's startup sweep
DeletePod(p) ==
    /\ EnvStep
    /\ UNCHANGED <<policies, gcVars, workerVars>>
    /\ p \in pods
    /\ pods' = pods \ {p}
    /\ queue' = queue \cup OwnerRequests(p)
    /\ UNCHANGED <<arts, watcherImage, nextUid, artifactCount, artifactsByPhase,
                   lastResult>>

\* the kubelet reports a new phase for a pod
PodPhaseChange(p, ph) ==
    /\ EnvStep
    /\ UNCHANGED <<policies, gcVars, workerVars>>
    /\ p \in pods
    /\ p.phase \in {"Pending", "Running"}
    /\ ph # p.phase
    /\ ph # "Pending"
    /\ pods' = (pods \ {p}) \cup {[p EXCEPT !.phase = ph]}
    /\ queue' = queue \cup OwnerRequests(p)
    /\ UNCHANGED <<arts, watcherImage, nextUid, artifactCount, artifactsByPhase,
                   lastResult>>

\* the operator is redeployed with another WATCHER_IMAGE
UpgradeOperator(img) ==
    /\ EnvStep
    /\ UNCHANGED <<policies, gcVars, workerVars>>
    /\ img # watcherImage
    /\ watcherImage' = img
    /\ queue' = { n \in ArtNames : IsSet(arts[n]) }
    /\ UNCHANGED <<arts, pods, nextUid, artifactCount, artifactsByPhase, lastResult>>

----------------------------------------------------------------------------
(* Managed policy objects *)

PolicyIds ==
    { [kind |-> "Policy", namespace |-> "ns1", name |-> "p"],
      [kind |-> "ClusterPolicy", namespace |-> "", name |-> "p"] }

\* no policy: the zero PolicyInfo
NoPolicy == [kind |-> "", namespace |-> "", name |-> ""]

\* the labels of a policy object; NIL stands for a label the object lacks
PolicyLabels(managedBy, version, artifact, checksum) ==
    [ managed_by |-> managedBy, policy_version |-> version,
      artifact_name |-> artifact, policy_checksum |-> checksum ]

\* the label sets with which policies appear in the cluster of the GC model
GcPolicyLabels ==
    { PolicyLabels("kyverno-watcher", "v1", an, "c1") : an \in {"a", NIL} }
    \cup { PolicyLabels("kyverno-watcher", NIL, "a", NIL),
           PolicyLabels(NIL, "v1", "a", "c1") }

\* a watcher (or a user) creates a policy object
ApplyPolicy(id, labels) ==
    /\ EnvStep
    /\ ~IsSet(policies[id])
    /\ policies' = [policies EXCEPT ![id] =
                       Some([spec |-> "s1", labels |-> labels])]
    /\ firstObserved' = [firstObserved EXCEPT ![id] = "never"]
    /\ UNCHANGED <<ctrlVars, orphanedPolicies, gcPc, gcList, gcLast, workerVars>>

\* a policy object is deleted by someone other than the GC
RemovePolicy(id) ==
    /\ EnvStep
    /\ IsSet(policies[id])
    /\ policies' = [policies EXCEPT ![id] = None]
    /\ firstObserved' = [firstObserved EXCEPT ![id] = "never"]
    /\ UNCHANGED <<ctrlVars, orphanedPolicies, gcPc, gcList, gcLast, workerVars>>

----------------------------------------------------------------------------
(* Garbage collector *)

HasPrefix(str, prefix) ==
    /\ Len(str) >= Len(prefix)
    /\ SubSeq(str, 1, Len(prefix)) = prefix

getPolicyKey(id) ==
    IF id.namespace # ""
    THEN id.kind \o "/" \o id.namespace \o "/" \o id.name
    ELSE id.kind \o "/" \o id.name

\* getPoliciesByKind: the objects of one kind that carry managed-by=kyverno-watcher
getPoliciesByKind(ps, kind) ==
    { id \in PolicyIds :
        /\ id.kind = kind
        /\ IsSet(ps[id])
        /\ Val(ps[id]).labels.managed_by = "kyverno-watcher" }

PolicyInfo(ps, id) == [id |-> id, labels |-> Val(ps[id]).labels]

\* a set of listed policies in the order the API server returns them
RECURSIVE ListOf(_, _)
ListOf(ps, ids) ==
    IF ids = {} THEN <<>>
    ELSE LET first == CHOOSE x \in ids :
                         \A y \in ids : x = y \/ getPolicyKey(x) # getPolicyKey(y)
         IN  <<PolicyInfo(ps, first)>> \o ListOf(ps, ids \ {first})

\* getManagedPolicies: Policies first, then ClusterPolicies; a list call that
\* fails is logged and its kind left out
getManagedPolicies(ps, policyListFails, clusterPolicyListFails) ==
    (IF policyListFails THEN <<>> ELSE ListOf(ps, getPoliciesByKind(ps, "Policy")))
    \o (IF clusterPolicyListFails THEN <<>>
        ELSE ListOf(ps, getPoliciesByKind(ps, "ClusterPolicy")))

checkForSpecificKyvernoArtifact(as, artifactName) ==
    \E n \in ArtNames : IsSet(as[n]) /\ n = artifactName

checkForSpecificWatcher(ps, artifactName) ==
    \E p \in ps :
        /\ HasPrefix(p.name, "kyverno-artifact-manager-" \o artifactName)
        /\ p.phase \in {"Running", "Pending"}

checkForActiveWatchers(ps) ==
    \E p \in ps :
        /\ "app" \in DOMAIN p.labels
        /\ p.labels["app"] = "kyverno-artifact-manager"
        /\ HasPrefix(p.name, "kyverno-artifact-manager-")
        /\ p.phase \in {"Running", "Pending"}

checkForKyvernoArtifacts(as) == \E n \in ArtNames : IsSet(as[n])

\* artifactListFails / podListFails: the cluster API call returns an error
isOrphanedLegacy(as, ps, artifactListFails, podListFails) ==
    IF podListFails THEN FALSE
    ELSE IF ~checkForActiveWatchers(ps) THEN TRUE
    ELSE IF artifactListFails THEN FALSE
    ELSE ~checkForKyvernoArtifacts(as)

isOrphaned(info, as, ps, artifactListFails, podListFails) ==
    IF info.labels.policy_version = NIL THEN FALSE
    ELSE IF info.labels.artifact_name = NIL
    THEN isOrphanedLegacy(as, ps, artifactListFails, podListFails)
    ELSE IF artifactListFails THEN FALSE
    ELSE IF ~checkForSpecificKyvernoArtifact(as, info.labels.artifact_name) THEN TRUE
    ELSE IF podListFails THEN FALSE
    ELSE ~checkForSpecificWatcher(ps, info.labels.artifact_name)

\* orphanedPolicies[policyKey] = time.Now(); the time is kept relative to the
\* running cycle
RecordPending(m, key) ==
    [k \in DOMAIN m \cup {key} |-> IF k = key THEN "thisCycle" ELSE m[k]]

\* delete(orphanedPolicies, policyKey)
Forget(m, key) == [k \in DOMAIN m \ {key} |-> m[k]]

\* the map left as it is
KeepEntry(m, key) == m

\* a policy found not orphaned on the first check of a visit
ForgetNotOrphaned(m, key) == Forget(m, key)

\* a policy found not orphaned on the re-check before deletion
ForgetRechecked(m, key) == Forget(m, key)

\* a policy that was deleted
ForgetDeleted(m, key) == Forget(m, key)

\* a failed delete that would also drop the entry
ForgetAfterFailedDelete(m, key) == Forget(m, key)

\* deletePolicy returned an error: the loop continues, the entry stays
KeepAfterFailedDelete(m, key) == m

Age(m) == [k \in DOMAIN m |-> "earlier"]

GcEvent(id, what, orphaned) == [id |-> id, did |-> what, orphaned |-> orphaned]

\* history: the GC has now seen the object that is present under id orphaned
Observe(id, orphaned) ==
    firstObserved' =
        IF orphaned /\ IsSet(policies[id]) /\ firstObserved[id] = "never"
        THEN [firstObserved EXCEPT ![id] = "thisCycle"]
        ELSE firstObserved

\* history: both list calls of the starting cycle answer, no object is present
\* under id, and the map still holds an entry under its key
ListedAbsentPending(id, policyListFails, clusterPolicyListFails) ==
    /\ ~policyListFails
    /\ ~clusterPolicyListFails
    /\ ~IsSet(policies[id])
    /\ getPolicyKey(id) \in DOMAIN orphanedPolicies

\* collectGarbage starts a cycle: it lists the managed policies
GCStart(policyListFails, clusterPolicyListFails) ==
    /\ gcPc = "idle"
    /\ gcPc' = "visit"
    /\ gcList' = getManagedPolicies(policies, policyListFails, clusterPolicyListFails)
    /\ orphanedPolicies' = Age(orphanedPolicies)
    /\ firstObserved' = [id \in PolicyIds |->
                           IF firstObserved[id] = "thisCycle" THEN "earlier"
                           ELSE IF ListedAbsentPending(id, policyListFails,
                                                       clusterPolicyListFails)
                           THEN "gone"
                           ELSE firstObserved[id]]
    /\ UNCHANGED <<ctrlVars, envOps, policies, gcLast, workerVars>>

\* the loop body up to the re-check: the first isOrphaned of a visit
GCVisit(artifactListFails, podListFails) ==
    /\ gcPc = "visit"
    /\ gcList # <<>>
    /\ LET info == Head(gcList)
           key == getPolicyKey(info.id)
           orphaned == isOrphaned(info, arts, pods, artifactListFails, podListFails)
       IN  /\ Observe(info.id, orphaned)
           /\ IF orphaned
              THEN IF key \notin DOMAIN orphanedPolicies
                   THEN /\ orphanedPolicies' = RecordPending(orphanedPolicies, key)
                        /\ gcLast' = GcEvent(info.id, "pending", TRUE)
                        /\ gcList' = Tail(gcList)
                        /\ gcPc' = "visit"
                   ELSE /\ gcPc' = "recheck"
                        /\ gcLast' = GcEvent(info.id, "recheck", TRUE)
                        /\ UNCHANGED <<orphanedPolicies, gcList>>
              ELSE /\ orphanedPolicies' = ForgetNotOrphaned(orphanedPolicies, key)
                   /\ gcLast' = GcEvent(info.id,
                                        IF key \in DOMAIN orphanedPolicies
                                        THEN "cleared" ELSE "skipped", FALSE)
                   /\ gcList' = Tail(gcList)
                   /\ gcPc' = "visit"
    /\ UNCHANGED <<ctrlVars, envOps, policies, workerVars>>

\* the re-check of a pending policy and, when it is still orphaned, deletePolicy
GCRecheck(artifactListFails, podListFails, deleteFails) ==
    /\ gcPc = "recheck"
    /\ LET info == Head(gcList)
           key == getPolicyKey(info.id)
           orphaned == isOrphaned(info, arts, pods, artifactListFails, podListFails)
       IN  /\ gcList' = Tail(gcList)
           /\ gcPc' = "visit"
           /\ IF ~orphaned
              THEN /\ orphanedPolicies' = ForgetRechecked(orphanedPolicies, key)
                   /\ gcLast' = GcEvent(info.id, "cleared", FALSE)
                   /\ UNCHANGED <<policies, firstObserved>>
              ELSE IF deleteFails \/ ~IsSet(policies[info.id])
              THEN \* the API refuses the delete, or the object is already gone
                   /\ gcLast' = GcEvent(info.id, "deleteFailed", TRUE)
                   /\ orphanedPolicies' = KeepAfterFailedDelete(orphanedPolicies, key)
                   /\ UNCHANGED <<policies, firstObserved>>
              ELSE /\ policies' = [policies EXCEPT ![info.id] = None]
                   /\ orphanedPolicies' = ForgetDeleted(orphanedPolicies, key)
                   /\ firstObserved' = [firstObserved EXCEPT ![info.id] = "never"]
                   /\ gcLast' = GcEvent(info.id, "deleted", TRUE)
    /\ UNCHANGED <<ctrlVars, envOps, workerVars>>

\* every listed policy was visited: the cycle ends and the GC sleeps
GCEnd ==
    /\ gcPc = "visit"
    /\ gcList = <<>>
    /\ gcPc' = "idle"
    /\ UNCHANGED <<ctrlVars, envOps, policies, orphanedPolicies, gcList, gcLast,
                   firstObserved, workerVars>>

----------------------------------------------------------------------------
(* Claims about the garbage collector *)

\* the step is the GC deleting the policy object present under id
GcDeletes(id) ==
    /\ gcPc = "recheck"
    /\ Head(gcList).id = id
    /\ IsSet(policies[id])
    /\ ~IsSet(policies'[id])

\* the step is a GC visit of id that ends with the observation "not orphaned"
GcSeesNotOrphaned(id) ==
    /\ gcPc \in {"visit", "recheck"}
    /\ gcList # <<>>
    /\ Head(gcList).id = id
    /\ gcList' = Tail(gcList)
    /\ gcLast' = GcEvent(id, gcLast'.did, FALSE)

\* C2: the GC never deletes a policy object in the cycle in which it first
\* observes that object as orphaned: whenever the GC deletes the object, its
\* first orphan observation of it was made in an earlier cycle.
C2_Original ==
    [][\A id \in PolicyIds : GcDeletes(id) => firstObserved[id] = "earlier"]_vars

\* C3: a GC visit that observes a pending policy as not orphaned leaves the
\* policy in place and removes its pending entry; and the GC deletes a policy
\* only on an entry recorded in an earlier cycle, so that a deletion after the
\* clearing needs a new first observation and a second one in a later cycle.
C3_ClearedNotDeleted ==
    [][\A id \in PolicyIds :
         /\ (GcSeesNotOrphaned(id) /\ getPolicyKey(id) \in DOMAIN orphanedPolicies)
               => /\ policies' = policies
                  /\ getPolicyKey(id) \notin DOMAIN orphanedPolicies'
         /\ GcDeletes(id)
               => /\ getPolicyKey(id) \in DOMAIN orphanedPolicies
                  /\ orphanedPolicies[getPolicyKey(id)] = "earlier"]_vars

\* a pending policy of artifact "a" was observed not orphaned after the
\* declaration and its worker pod had appeared: the entry is gone, the policy
\* is still there
C3_Witness ==
    \E id \in PolicyIds :
        /\ gcLast = GcEvent(id, "cleared", FALSE)
        /\ IsSet(policies[id])
        /\ Val(policies[id]).labels.artifact_name = "a"
        /\ IsSet(arts["a"])
        /\ \E p \in pods : p.name = PodName("a") /\ p.phase \in {"Pending", "Running"}
        /\ getPolicyKey(id) \notin DOMAIN orphanedPolicies

\* C39: the pending map holds entries only for policies that exist: when a
\* pending policy has disappeared from the cluster by other means, a cycle
\* whose listing no longer contains it ends with its entry removed, so that a
\* later policy with the same kind, namespace and name starts a new grace
\* cycle.
C39_Original ==
    [][GCEnd => \A id \in PolicyIds :
                   firstObserved[id] = "gone"
                       => getPolicyKey(id) \notin DOMAIN orphanedPolicies']_vars

\* the step is the first check of a visit of a pending policy, and the
\* predicate finds it orphaned
VisitsPendingOrphan(artifactListFails, podListFails) ==
    /\ GCVisit(artifactListFails, podListFails)
    /\ getPolicyKey(Head(gcList).id) \in DOMAIN orphanedPolicies
    /\ isOrphaned(Head(gcList), arts, pods, artifactListFails, podListFails)

\* the step is the re-check of a pending policy, and the predicate finds it
\* orphaned again
RechecksOrphan(artifactListFails, podListFails, deleteFails) ==
    /\ GCRecheck(artifactListFails, podListFails, deleteFails)
    /\ isOrphaned(Head(gcList), arts, pods, artifactListFails, podListFails)

\* C16 as stated: a policy with a pending entry from an earlier cycle that the
\* GC finds orphaned again (first check and re-check) is deleted in that cycle
\* and its pending entry is removed.
C16_Original ==
    [][\A f1, f2, df \in BOOLEAN :
          /\ VisitsPendingOrphan(f1, f2) =>
                /\ gcPc' = "recheck"
                /\ gcList' = gcList
          /\ RechecksOrphan(f1, f2, df) =>
                /\ ~IsSet(policies'[Head(gcList).id])
                /\ getPolicyKey(Head(gcList).id) \notin DOMAIN orphanedPolicies'
      ]_vars

\* C16, amended: a policy with a pending entry from an earlier cycle that the
\* GC finds orphaned again (first check and re-check) is deleted in that cycle
\* and its pending entry is removed, provided the delete request succeeds; when
\* the request fails the policy and its entry stay as they are.
C16_DeletedUnlessDeleteFails ==
    [][\A f1, f2, df \in BOOLEAN :
          /\ VisitsPendingOrphan(f1, f2) =>
                /\ gcPc' = "recheck"
                /\ gcList' = gcList
                /\ orphanedPolicies[getPolicyKey(Head(gcList).id)] = "earlier"
          /\ RechecksOrphan(f1, f2, df) =>
                IF ~df /\ IsSet(policies[Head(gcList).id])
                THEN /\ ~IsSet(policies'[Head(gcList).id])
                     /\ getPolicyKey(Head(gcList).id) \notin DOMAIN orphanedPolicies'
                ELSE /\ policies' = policies
                     /\ orphanedPolicies' = orphanedPolicies
      ]_vars

\* the GC has just deleted a policy that it had found orphaned in an earlier
\* cycle, and the entry is gone
C16_Witness ==
    \E id \in PolicyIds :
        /\ gcLast = GcEvent(id, "deleted", TRUE)
        /\ ~IsSet(policies[id])
        /\ getPolicyKey(id) \notin DOMAIN orphanedPolicies
        /\ gcPc = "visit"

\* a pod named exactly as the worker of the artifact, in a non-terminal phase
ExactWorker(ps, artifactName) ==
    \E p \in ps : p.name = PodName(artifactName) /\ p.phase \in {"Running", "Pending"}

\* C17: with the cluster's API answering, a versioned policy that carries an
\* artifact-name label is judged orphaned exactly when no declared artifact of
\* that name exists or no pod named exactly kyverno-artifact-manager-<name> is
\* Running or Pending; the pods of other artifacts do not count.
C17_Original ==
    \A id \in PolicyIds :
        (/\ IsSet(policies[id])
         /\ Val(policies[id]).labels.policy_version # NIL
         /\ Val(policies[id]).labels.artifact_name # NIL)
        => LET artifactName == Val(policies[id]).labels.artifact_name
           IN  isOrphaned(PolicyInfo(policies, id), arts, pods, FALSE, FALSE)
                 <=> \/ ~checkForSpecificKyvernoArtifact(arts, artifactName)
                     \/ ~ExactWorker(pods, artifactName)

\* a pod with the watcher name prefix in a non-terminal phase, whatever its labels
PrefixWorker(ps) ==
    \E p \in ps :
        /\ HasPrefix(p.name, "kyverno-artifact-manager-")
        /\ p.phase \in {"Running", "Pending"}

\* C18: with the cluster's API answering, a versioned policy without an
\* artifact-name label is judged orphaned exactly when no artifact is declared
\* or no pod whose name starts with kyverno-artifact-manager- is Running or
\* Pending, whatever labels the pod carries.
C18_Original ==
    \A id \in PolicyIds :
        (/\ IsSet(policies[id])
         /\ Val(policies[id]).labels.policy_version # NIL
         /\ Val(policies[id]).labels.artifact_name = NIL)
        => (isOrphaned(PolicyInfo(policies, id), arts, pods, FALSE, FALSE)
              <=> \/ ~checkForKyvernoArtifacts(arts)
                  \/ ~PrefixWorker(pods))

\* C19: whenever the GC deletes an object, the object it deletes carries
\* managed-by=kyverno-watcher and a policy-version label.
C19_Original ==
    [][\A id \in PolicyIds :
          GcDeletes(id) =>
              /\ Val(policies[id]).labels.managed_by = "kyverno-watcher"
              /\ Val(policies[id]).labels.policy_version # NIL]_vars

\* the evaluation of the predicate for info reaches an API call that fails
PredicateErrs(info, as, ps, artifactListFails, podListFails) ==
    IF info.labels.policy_version = NIL THEN FALSE
    ELSE IF info.labels.artifact_name = NIL
    THEN podListFails \/ (checkForActiveWatchers(ps) /\ artifactListFails)
    ELSE \/ artifactListFails
         \/ /\ checkForSpecificKyvernoArtifact(as, info.labels.artifact_name)
            /\ podListFails

\* C20: a cycle whose listing fails evaluates no policy, and a visit whose
\* predicate evaluation fails ends the cycle there with no deletion; in both
\* cases the pending map and the policies are left as they were, so that the
\* later cycles start from what they would have started from without it.
C20_Original ==
    [][\A f1, f2, df \in BOOLEAN :
          /\ (GCStart(f1, f2) /\ (f1 \/ f2)) => gcList' = <<>>
          /\ (GCVisit(f1, f2) /\ PredicateErrs(Head(gcList), arts, pods, f1, f2))
                => /\ gcList' = <<>>
                   /\ gcPc' = "visit"
                   /\ DOMAIN orphanedPolicies' = DOMAIN orphanedPolicies
          /\ (GCRecheck(f1, f2, df) /\ PredicateErrs(Head(gcList), arts, pods, f1, f2))
                => /\ gcList' = <<>>
                   /\ policies' = policies
                   /\ DOMAIN orphanedPolicies' = DOMAIN orphanedPolicies
      ]_vars

----------------------------------------------------------------------------
(* Watcher: configuration *)

providerArtifactory == "artifactory"

\* strings.Contains(s, c) for a one-character c
Contains(s, c) == \E i \in 1..Len(s) : SubSeq(s, i, i) = c

\* strings.Split(s, c) for a one-character c
RECURSIVE Split(_, _)
Split(s, c) ==
    IF ~Contains(s, c) THEN <<s>>
    ELSE LET i == CHOOSE k \in 1..Len(s) :
                     /\ SubSeq(s, k, k) = c
                     /\ \A j \in 1..(k - 1) : SubSeq(s, j, j) # c
         IN  <<SubSeq(s, 1, i - 1)>> \o Split(SubSeq(s, i + 1, Len(s)), c)

\* strings.TrimSpace
RECURSIVE TrimSpace(_)
TrimSpace(s) ==
    IF Len(s) > 0 /\ SubSeq(s, 1, 1) = " " THEN TrimSpace(SubSeq(s, 2, Len(s)))
    ELSE IF Len(s) > 0 /\ SubSeq(s, Len(s), Len(s)) = " "
    THEN TrimSpace(SubSeq(s, 1, Len(s) - 1))
    ELSE s

\* fmt.Sscanf(value, "%d", &intVal)
ScanInt(v) ==
    CASE v = "0" -> 0
      [] v = "30" -> 30
      [] v = "60" -> 60
      [] v = "120" -> 120

getEnvOrDefault(v, defaultValue) == IF v # NIL /\ v # "" THEN v ELSE defaultValue

getEnvAsIntOrDefault(v, defaultValue) ==
    IF v # NIL /\ v # "" THEN ScanInt(v) ELSE defaultValue

getEnvAsBoolOrDefault(v, defaultValue) ==
    IF v # NIL /\ v # "" THEN v \in {"t", "true", "1"} ELSE defaultValue

\* os.Getenv: an unset variable reads as the empty string
getEnvFunc(v) == IF v = NIL THEN "" ELSE v

\* strings.TrimPrefix
TrimPrefix(str, prefix) ==
    IF HasPrefix(str, prefix) THEN SubSeq(str, Len(prefix) + 1, Len(str)) ELSE str

\* loadConfig: the artifact name, taken from ARTIFACT_NAME or, when that is
\* empty, from a HOSTNAME that starts with kyverno-artifact-manager-
artifactNameOf(env) ==
    IF getEnvFunc(env.ARTIFACT_NAME) # "" THEN getEnvFunc(env.ARTIFACT_NAME)
    ELSE IF HasPrefix(getEnvFunc(env.HOSTNAME), "kyverno-artifact-manager-")
    THEN TrimPrefix(getEnvFunc(env.HOSTNAME), "kyverno-artifact-manager-")
    ELSE ""

\* loadConfig: the Config a watcher builds from the environment of its pod
loadConfig(env) ==
    [ ImageBase |-> env.IMAGE_BASE,
      PollInterval |-> getEnvAsIntOrDefault(env.POLL_INTERVAL, 30),
      PollForTagChanges |->
          getEnvAsBoolOrDefault(env.WATCHER_POLL_FOR_TAG_CHANGES_ENABLED, TRUE),
      Provider |-> getEnvOrDefault(env.PROVIDER, providerGitHub),
      ArtifactName |-> artifactNameOf(env),
      WatcherImage |-> getEnvFunc(env.WATCHER_IMAGE),
      PodNamespace |-> getEnvFunc(env.POD_NAMESPACE),
      DeletePoliciesOnTermination |->
          getEnvAsBoolOrDefault(env.WATCHER_DELETE_POLICIES_ON_TERMINATION, FALSE),
      ReconcilePoliciesFromChecksum |->
          getEnvAsBoolOrDefault(env.WATCHER_CHECKSUM_RECONCILIATION_ENABLED, FALSE) ]

\* the declarations whose watcher the watcher model follows
WatchedSpecs ==
    [ url : {Some("r/p"), Some("r/p:v1")},
      pollingInterval : {None, Some(0)},
      provider : {None, Some(providerArtifactory)},
      deletePoliciesOnTermination : {None},
      reconcilePoliciesFromChecksum : {None, Some(TRUE)},
      pollForTagChanges : {None, Some(FALSE)} ]

\* the namespace of the controller and of the pods it creates
OperatorNamespace == "ns1"

\* the environment of the watcher in a pod that Reconcile created: the literal
\* variables, POD_NAMESPACE from the pod's namespace field, and the HOSTNAME the
\* container runtime sets to the pod's name
ContainerEnv(pod) ==
    [ v \in DOMAIN pod.env \cup {"POD_NAMESPACE", "HOSTNAME"} |->
        CASE v = "POD_NAMESPACE" -> OperatorNamespace
          [] v = "HOSTNAME" -> pod.name
          [] OTHER -> pod.env[v] ]

PodEnv(n, s, image) ==
    ContainerEnv([name |-> PodName(n), env |-> ProjectedEnv(n, s, image)])

\* the declaration behind the watchers that run outside a pod of the controller
StandaloneSpec ==
    [ url |-> Some("r/p"), pollingInterval |-> None, provider |-> None,
      deletePoliciesOnTermination |-> None,
      reconcilePoliciesFromChecksum |-> None, pollForTagChanges |-> None ]

\* the environments of watchers started without ARTIFACT_NAME: on a host of
\* any name, or in a pod that carries the name of a watcher pod
StandaloneEnvs ==
    { [PodEnv("a", StandaloneSpec, "img1") EXCEPT
          !.ARTIFACT_NAME = an, !.HOSTNAME = h] :
        an \in {NIL, ""}, h \in {"host1", PodName("a")} }

\* the environments of the watchers the watcher model follows
WatcherEnvs ==
    { PodEnv("a", s, "img1") : s \in WatchedSpecs } \cup StandaloneEnvs

WatcherConfigs == { loadConfig(e) : e \in WatcherEnvs }

----------------------------------------------------------------------------
(* Watcher: the registry and the artifact's content *)

Tags == {"v1", "v2"}

Files == {"f1", "f2"}

\* a later version of the artifact, which no longer contains the second file
AllTags == Tags \cup {"v3"}

\* the manifest files of the artifact published under a tag
FilesOf(tag) == IF tag = "v3" THEN {"f1"} ELSE Files

\* the policy object that a manifest file of the artifact describes
FilePolicy(f) ==
    IF f = "f1" THEN [kind |-> "Policy", namespace |-> "ns1", name |-> "p"]
    ELSE [kind |-> "ClusterPolicy", namespace |-> "", name |-> "p"]

\* the spec of each manifest in the artifact published under a tag
\* (NIL: the manifest has no spec field)
ManifestSpec(tag, f) ==
    IF tag = "v2" THEN (IF f = "f1" THEN "s2" ELSE NIL) ELSE "s1"

RECURSIVE Repeat(_, _)
Repeat(str, n) == IF n = 0 THEN "" ELSE str \o Repeat(str, n - 1)

\* calculateSHA256: the digest of the data as 64 hexadecimal characters, a
\* different one for each content the model knows
calculateSHA256(data) ==
    Repeat(CASE data = "s1" -> "a1"
             [] data = "s2" -> "a2"
             [] data = "sx" -> "af"
             [] data = "v1/f1" -> "b1"
             [] data = "v1/f2" -> "b2"
             [] data = "v2/f1" -> "c1"
             [] data = "v2/f2" -> "c2"
             [] OTHER -> "00", 32)

\* calculateSHA256(json.Marshal(spec))[:48]
Checksum(spec) == SubSeq(calculateSHA256(spec), 1, 48)

\* the labels a manifest of the artifact carries as published: the second
\* version's first manifest was exported from a cluster where the watcher of
\* another artifact had applied it
ManifestLabels(tag, f) ==
    IF tag = "v2" /\ f = "f1"
    THEN PolicyLabels("kyverno-watcher", "v1", "ab", Checksum("s1"))
    ELSE PolicyLabels(NIL, NIL, NIL, NIL)

\* pullImageToDir: the checksums of the manifests pulled for a tag
\* pullImageToDir: the checksum of one manifest, taken over its spec, or over
\* the whole file when it has no spec
ManifestChecksum(tag, f) ==
    IF ManifestSpec(tag, f) = NIL
    THEN SubSeq(calculateSHA256(tag \o "/" \o f), 1, 48)
    ELSE Checksum(ManifestSpec(tag, f))

PulledChecksums(tag) == [f \in FilesOf(tag) |-> ManifestChecksum(tag, f)]

\* a pull that hands out the manifests of the first version whatever the tag
LabelledManifestStale(cfg, tag, f) ==
    [ spec |-> ManifestSpec("v1", f),
      labels |-> PolicyLabels("kyverno-watcher", "v1",
                              IF cfg.ArtifactName # "" THEN cfg.ArtifactName ELSE NIL,
                              ManifestChecksum("v1", f)) ]

\* a labelling that stamps the artifact name only, and leaves the other
\* labels as the manifest came
addLabelsArtifactOnly(labels, cfg, tag, checksum) ==
    [ labels EXCEPT !.artifact_name =
          IF cfg.ArtifactName # "" THEN cfg.ArtifactName ELSE @ ]

\* pullImageToDir: the tracking labels are set on top of the labels the
\* manifest has, artifact-name only for a non-empty ArtifactName
addLabels(labels, cfg, tag, checksum) ==
    [ labels EXCEPT !.managed_by = "kyverno-watcher",
                    !.policy_version = tag,
                    !.artifact_name =
                        IF cfg.ArtifactName # "" THEN cfg.ArtifactName ELSE @,
                    !.policy_checksum = checksum ]

\* pullImageToDir: the manifest as rewritten on disk, with the tracking labels
LabelledManifest(cfg, tag, f) ==
    [ spec |-> ManifestSpec(tag, f),
      labels |-> addLabels(ManifestLabels(tag, f), cfg, tag,
                           ManifestChecksum(tag, f)) ]

\* the orders in which a set of files can come out of a Go map
Orders(S) ==
    { q \in [1..Cardinality(S) -> S] : \A f \in S : \E i \in DOMAIN q : q[i] = f }

Range(q) == { q[i] : i \in DOMAIN q }

----------------------------------------------------------------------------
(* Watcher: tag detection *)

Detection(changed, latest, prev, err, done) ==
    [changed |-> changed, latest |-> latest, prev |-> prev, err |-> err, done |-> done]

\* name.ParseReference(imageBase).Identifier(): the tag, "latest" without one
RefIdentifier(imageBase) ==
    LET parts == Split(imageBase, ":")
    IN  IF Len(parts) >= 2 /\ ~Contains(parts[Len(parts)], "/")
        THEN parts[Len(parts)] ELSE "latest"

\* getLatestTagOrDigest / getLatestArtifactoryTag followed by the callers' checks
QueryLatest(registry, fails, prev, always) ==
    IF fails THEN Detection(FALSE, "", "", TRUE, FALSE)
    ELSE IF registry = "" THEN Detection(FALSE, "", "", FALSE, FALSE)
    ELSE Detection(always \/ registry # prev, registry, prev, FALSE, FALSE)

\* a detection that takes every tag for a new one, whatever the state file says
tagChangedIgnoresState(cfg, registry, last, fails) ==
    QueryLatest(registry, fails, "", TRUE)

tagChanged(cfg, registry, last, fails) ==
    IF cfg.PollInterval = 0
    THEN LET tag == RefIdentifier(cfg.ImageBase)
         IN  IF tag = "latest" \/ tag = ""
             THEN QueryLatest(registry, fails, "", TRUE)
             ELSE Detection(TRUE, tag, "", FALSE, FALSE)
    ELSE LET parts == Split(cfg.ImageBase, ":")
             prevTag == TrimSpace(last)
         IN  IF cfg.Provider # providerGitHub
                /\ Len(parts) >= 2 /\ parts[Len(parts)] # "latest"
             THEN Detection(parts[Len(parts)] # prevTag, parts[Len(parts)], prevTag,
                            FALSE, FALSE)
             ELSE QueryLatest(registry, fails, prevTag, FALSE)

\* pinned mode that takes an absent state file for a change of tag
pinnedTagColdChange(cfg, last) ==
    LET parts == Split(cfg.ImageBase, ":")
        lastPart == parts[Len(parts)]
    IN  IF Contains(cfg.ImageBase, ":") /\ ~Contains(lastPart, "/")
        THEN Detection(lastPart # last, lastPart, last, FALSE, FALSE)
        ELSE Detection(FALSE, "", "", FALSE, TRUE)

\* watchLoop, pinned mode: the tag of IMAGE_BASE against the state file
pinnedTag(cfg, last) ==
    LET parts == Split(cfg.ImageBase, ":")
        lastPart == parts[Len(parts)]
    IN  IF Contains(cfg.ImageBase, ":") /\ ~Contains(lastPart, "/")
        THEN Detection(lastPart # last /\ last # "", lastPart, last, FALSE, FALSE)
        ELSE Detection(FALSE, "", "", FALSE, TRUE)

detectTag(cfg, registry, last, fails) ==
    IF cfg.PollForTagChanges THEN tagChanged(cfg, registry, last, fails)
    ELSE pinnedTag(cfg, last)

\* a comparison that passes over the policies missing in the cluster
checksumsChangedSkipsMissing(newChecksums, ps) ==
    { f \in DOMAIN newChecksums :
        /\ IsSet(ps[FilePolicy(f)])
        /\ \/ Val(ps[FilePolicy(f)]).spec = NIL
           \/ newChecksums[f] # Checksum(Val(ps[FilePolicy(f)]).spec) }

\* checksumsChanged: the files whose policy is missing in the cluster, has no
\* spec, or has a spec with another checksum
checksumsChanged(newChecksums, ps) ==
    { f \in DOMAIN newChecksums :
        \/ ~IsSet(ps[FilePolicy(f)])
        \/ Val(ps[FilePolicy(f)]).spec = NIL
        \/ newChecksums[f] # Checksum(Val(ps[FilePolicy(f)]).spec) }

----------------------------------------------------------------------------
(* Watcher: one reconciliation cycle *)

Plan(outcome, files, effects) ==
    [outcome |-> outcome, files |-> files, effects |-> effects]

\* a watchLoop without its early return
ShortCircuitNever(cfg, d) == FALSE

\* the early return of watchLoop: nothing changed and nothing to compare
ShortCircuit(cfg, d) == ~d.changed /\ ~cfg.ReconcilePoliciesFromChecksum

\* a watchLoop that goes on after a pull that failed
pullFailureIgnored(latest, pullFails) == FALSE

\* pullImageToDir returns an error: the registry cannot be reached or has no
\* such tag
pullFailed(latest, pullFails) == pullFails \/ latest \notin AllTags

\* watchLoop up to the call of applyManifests: what the cycle is going to do
\* and what it has done on the way ("clients": getKubernetesClients with its
\* API discovery, "pull": pullImageToDir, "compare": the cluster reads of
\* checksumsChanged)
WatchPlan(cfg, d, ps, clientsFail, pullFails) ==
    IF d.err THEN Plan("error", {}, {})
    ELSE IF d.done THEN Plan("nothing", {}, {})
    ELSE IF ShortCircuit(cfg, d) THEN Plan("nochange", {}, {})
    ELSE IF clientsFail THEN Plan("error", {}, {"clients"})
    ELSE IF d.changed
    THEN IF pullFailed(d.latest, pullFails)
         THEN Plan("error", {}, {"clients", "pull"})
         ELSE Plan("apply", DOMAIN PulledChecksums(d.latest), {"clients", "pull"})
    ELSE IF cfg.ReconcilePoliciesFromChecksum
    THEN IF pullFailed(d.latest, pullFails)
         THEN Plan("error", {}, {"clients", "pull"})
         ELSE LET filesToApply == checksumsChanged(PulledChecksums(d.latest), ps)
              IN  IF filesToApply # {}
                  THEN Plan("apply", filesToApply, {"clients", "pull", "compare"})
                  ELSE Plan("uptodate", {}, {"clients", "pull", "compare"})
    ELSE Plan("uptodate", {}, {"clients"})

\* the loop of applyManifests gives up wherever it stands
applyManifestsGivesUp(files) == TRUE

\* the loop of applyManifests has gone through all its files
applyManifestsReturns(files) == files = <<>>

\* watchLoop is called: tag detection, short-circuit, client acquisition, pull
\* and checksum comparison
watchLoop(detectFails, clientsFail, pullFails) ==
    /\ sigPc # "exited"
    /\ sweepPc = "done"
    /\ wPc = "sleep"
    /\ LET d == detectTag(config, registryLatest, lastFile, detectFails)
           plan == WatchPlan(config, d, policies, clientsFail, pullFails)
       IN  /\ wLatest' = d.latest
           /\ wChanged' = d.changed
           /\ wLast' = plan.outcome
           /\ wEffects' = plan.effects
           /\ wFailed' = IF plan.outcome = "error" THEN wFailed ELSE {}
           /\ IF plan.outcome = "apply"
              THEN /\ wPc' = "apply"
                   /\ wToApply' \in Orders(plan.files)
              ELSE /\ wPc' = "sleep"
                   /\ wToApply' = <<>>
    /\ wApplied' = {}
    /\ wWrote' = FALSE
    /\ UNCHANGED <<ctrlVars, envOps, policies, gcVars, wEnv, config, registryLatest,
                   lastFile, sigVars,
                   sweepVars, applyVars>>

\* an update that writes the spec of the manifest and loses its labels
applyResourceUpdateDropsLabels(ps, id, obj) ==
    IF IsSet(ps[id])
    THEN [ps EXCEPT ![id] = Some([obj EXCEPT !.labels = PolicyLabels(NIL, NIL, NIL, NIL)])]
    ELSE [ps EXCEPT ![id] = Some(obj)]

\* applyResource: Get, then Create when the object is not found, else Update
\* with the manifest, which replaces the object
applyResource(ps, id, obj) == [ps EXCEPT ![id] = Some(obj)]

\* a loop that stops at the first file it cannot apply
remainingAfterAbort(files, failed) == IF failed THEN <<>> ELSE Tail(files)

\* the loop of applyManifests goes on to the next file, also after a failure
remainingAfter(files, failed) == Tail(files)

\* applyManifests takes its next file: applyManifestFile and applyResource
\* create or update the policy, or fail and leave the cluster as it is
ApplyFile(fails) ==
    /\ sigPc # "exited"
    /\ wPc = "apply"
    /\ wToApply # <<>>
    /\ LET f == Head(wToApply)
       IN  /\ wToApply' = remainingAfter(wToApply, fails)
           /\ IF fails
              THEN /\ wFailed' = wFailed \cup {f}
                   /\ UNCHANGED <<policies, wApplied>>
              ELSE /\ policies' = applyResource(policies, FilePolicy(f),
                                                LabelledManifest(config, wLatest, f))
                   /\ wApplied' = wApplied \cup {f}
                   /\ UNCHANGED wFailed
    /\ UNCHANGED <<ctrlVars, envOps, gcVars, wEnv, config, registryLatest, lastFile, wPc,
                   wLatest, wChanged, wWrote, wLast, sigVars,
                   sweepVars, applyVars>>
    /\ wEffects' = wEffects \cup {"apply"}

\* applyManifests returns nil, appliedSomething becomes true and the state file
\* is overwritten with latest
FinishCycle ==
    /\ sigPc # "exited"
    /\ wPc = "apply"
    /\ applyManifestsReturns(wToApply)
    /\ lastFile' = wLatest
    /\ wWrote' = TRUE
    /\ wPc' = "sleep"
    /\ wLast' = "done"
    /\ wEffects' = wEffects \cup {"write"}
    /\ UNCHANGED <<ctrlVars, envOps, policies, gcVars, wEnv, config, registryLatest, wLatest,
                   wChanged, wToApply, wApplied, wFailed, sigVars,
                   sweepVars, applyVars>>

\* a new version of the artifact is published
PublishTag(t) ==
    /\ EnvStep
    /\ t # registryLatest
    /\ registryLatest' = t
    /\ UNCHANGED <<ctrlVars, policies, gcVars, wEnv, config, lastFile, wPc, wLatest, wChanged,
                   wToApply, wApplied, wFailed, wWrote, wEffects, wLast, sigVars,
                   sweepVars, applyVars>>

\* another writer changes the spec of a policy in the cluster
TamperPolicy(id) ==
    /\ EnvStep
    /\ IsSet(policies[id])
    /\ Val(policies[id]).spec # "sx"
    /\ policies' = [policies EXCEPT ![id] = Some([Val(policies[id]) EXCEPT !.spec = "sx"])]
    /\ UNCHANGED <<ctrlVars, gcVars, workerVars>>

----------------------------------------------------------------------------
(* Watcher: the API calls of applyResource, one by one *)

\* what Get returns: whether the object exists, and its resourceVersion
getResource(ps, versions, id) ==
    [found |-> IsSet(ps[id]), resourceVersion |-> versions[id]]

\* an Update request that carries no resourceVersion
updateRequestUnversioned(obj, existing) == [obj |-> obj, resourceVersion |-> None]

\* applyResource: obj.SetResourceVersion(existing.GetResourceVersion())
updateRequest(obj, existing) ==
    [obj |-> obj, resourceVersion |-> Some(existing.resourceVersion)]

\* the API server accepts an Update of an existing object, unless the request
\* carries a resourceVersion other than the object's (Conflict)
updateAccepted(ps, versions, id, req) ==
    /\ IsSet(ps[id])
    /\ IsSet(req.resourceVersion) => Val(req.resourceVersion) = versions[id]

\* the Update is answered with Conflict
updateConflicts(ps, versions, id, req) ==
    /\ IsSet(ps[id])
    /\ IsSet(req.resourceVersion)
    /\ Val(req.resourceVersion) # versions[id]

\* every write of an object gives it a new resourceVersion
newVersion(versions, id) == [versions EXCEPT ![id] = @ + 1]

\* applyResource reads the object of the next file
ApplyGet ==
    /\ sigPc # "exited"
    /\ wPc = "apply"
    /\ wToApply # <<>>
    /\ wGot = None
    /\ rv[FilePolicy(Head(wToApply))] < MaxVersion
    /\ wGot' = Some(getResource(policies, rv, FilePolicy(Head(wToApply))))
    /\ UNCHANGED <<ctrlVars, envOps, policies, gcVars, wEnv, config, registryLatest,
                   lastFile, wPc, wLatest, wChanged, wToApply, wApplied, wFailed,
                   wWrote, wEffects, wLast, sigVars, sweepVars, rv>>

\* applyResource creates the object when Get did not find it, else updates it
\* with the resourceVersion Get returned; an error of the call makes the file
\* a failed one and applyManifests goes on with the next file
ApplyWrite(fails) ==
    /\ sigPc # "exited"
    /\ wPc = "apply"
    /\ wToApply # <<>>
    /\ IsSet(wGot)
    /\ LET f == Head(wToApply)
           id == FilePolicy(f)
           obj == LabelledManifest(config, wLatest, f)
           req == updateRequest(obj, Val(wGot))
           accepted == /\ ~fails
                       /\ IF Val(wGot).found
                          THEN updateAccepted(policies, rv, id, req)
                          ELSE ~IsSet(policies[id])
       IN  /\ wToApply' = remainingAfter(wToApply, ~accepted)
           /\ IF accepted
              THEN /\ policies' = applyResource(policies, id, req.obj)
                   /\ rv' = newVersion(rv, id)
                   /\ wApplied' = wApplied \cup {f}
                   /\ wEffects' = wEffects \cup {"apply"}
                   /\ UNCHANGED wFailed
              ELSE /\ wFailed' = wFailed \cup {f}
                   /\ wEffects' = wEffects \cup {"apply"}
                          \cup (IF Val(wGot).found
                                   /\ updateConflicts(policies, rv, id, req)
                                THEN {"conflict"} ELSE {})
                   /\ UNCHANGED <<policies, rv, wApplied>>
    /\ wGot' = None
    /\ UNCHANGED <<ctrlVars, envOps, gcVars, wEnv, config, registryLatest, lastFile, wPc,
                   wLatest, wChanged, wWrote, wLast, sigVars, sweepVars>>

\* a third party changes the spec of a policy in the cluster
ThirdPartyWrite(id) ==
    /\ EnvStep
    /\ IsSet(policies[id])
    /\ Val(policies[id]).spec # "sx"
    /\ rv[id] < MaxVersion
    /\ policies' = [policies EXCEPT ![id] = Some([Val(policies[id]) EXCEPT !.spec = "sx"])]
    /\ rv' = newVersion(rv, id)
    /\ UNCHANGED <<ctrlVars, gcVars, wEnv, config, registryLatest, lastFile, wPc,
                   wLatest, wChanged, wToApply, wApplied, wFailed, wWrote, wEffects,
                   wLast, sigVars, sweepVars, wGot>>

\* a third party deletes a policy
ThirdPartyDelete(id) ==
    /\ EnvStep
    /\ IsSet(policies[id])
    /\ rv[id] < MaxVersion
    /\ policies' = [policies EXCEPT ![id] = None]
    /\ rv' = newVersion(rv, id)
    /\ UNCHANGED <<ctrlVars, gcVars, wEnv, config, registryLatest, lastFile, wPc,
                   wLatest, wChanged, wToApply, wApplied, wFailed, wWrote, wEffects,
                   wLast, sigVars, sweepVars, wGot>>

----------------------------------------------------------------------------
(* Watcher: cleanup on termination *)

\* List with LabelSelector artifact-name=<artifactName>: the objects of one
\* kind, of every namespace, that carry the label with that value
listByLabel(ps, kind, artifactName) ==
    { id \in PolicyIds :
        /\ id.kind = kind
        /\ IsSet(ps[id])
        /\ Val(ps[id]).labels.artifact_name = artifactName }

\* the object a Delete call of deleteResourcesByLabel addresses: the resource
\* kind, the namespace argument of the function and the name of the listed item
deleteTarget(namespace, item) ==
    [kind |-> item.id.kind, namespace |-> namespace, name |-> item.id.name]

\* the API server's Delete: removes the addressed object, not found otherwise
apiDelete(ps, id) ==
    IF id \in DOMAIN ps /\ IsSet(ps[id]) THEN [ps EXCEPT ![id] = None] ELSE ps

\* the kind cleanupPolicies is working on
CleanupKind == IF sigPc \in {"listPolicy", "deletePolicy"} THEN "Policy" ELSE "ClusterPolicy"

\* what follows the work on one kind: ClusterPolicies after Policies, then os.Exit
AfterKind(kind) == IF kind = "Policy" THEN "listClusterPolicy" ELSE "exited"

\* the process receives SIGTERM, SIGINT or SIGQUIT: with
\* DeletePoliciesOnTermination the handler starts cleanupPolicies (log.Fatalf
\* when it cannot build a client), without it the process just ends
Terminate(clientsFail) ==
    /\ sigPc = "running"
    /\ IF config.DeletePoliciesOnTermination /\ ~clientsFail
       THEN sigPc' = "listPolicy"
       ELSE sigPc' = "exited"
    /\ sigFailed' = (config.DeletePoliciesOnTermination /\ clientsFail)
    /\ UNCHANGED <<ctrlVars, envOps, policies, gcVars, wEnv, config, registryLatest, lastFile,
                   wPc, wLatest, wChanged, wToApply, wApplied, wFailed, wWrote,
                   wEffects, wLast, sigList, sweepVars, applyVars>>

\* deleteResourcesByLabel lists the resources of one kind; a failed List is
\* logged by cleanupPolicies, which goes on
CleanupList(listFails) ==
    /\ sigPc \in {"listPolicy", "listClusterPolicy"}
    /\ IF listFails
       THEN /\ sigPc' = AfterKind(CleanupKind)
            /\ sigList' = <<>>
       ELSE /\ sigPc' = (IF CleanupKind = "Policy" THEN "deletePolicy"
                         ELSE "deleteClusterPolicy")
            /\ sigList' = ListOf(policies,
                                 listByLabel(policies, CleanupKind, config.ArtifactName))
    /\ sigFailed' = (sigFailed \/ listFails)
    /\ UNCHANGED <<ctrlVars, envOps, policies, gcVars, wEnv, config, registryLatest, lastFile,
                   wPc, wLatest, wChanged, wToApply, wApplied, wFailed, wWrote,
                   wEffects, wLast, sweepVars, applyVars>>

\* deleteResourcesByLabel deletes the next listed item; cleanupPolicies calls it
\* with namespace "" for both kinds; a failed Delete is logged
CleanupDelete(deleteFails) ==
    /\ sigPc \in {"deletePolicy", "deleteClusterPolicy"}
    /\ sigList # <<>>
    /\ policies' = IF deleteFails THEN policies
                   ELSE apiDelete(policies, deleteTarget("", Head(sigList)))
    /\ sigList' = Tail(sigList)
    /\ sigFailed' = (sigFailed \/ deleteFails)
    /\ UNCHANGED <<ctrlVars, envOps, gcVars, wEnv, config, registryLatest, lastFile,
                   wPc, wLatest, wChanged, wToApply, wApplied, wFailed, wWrote,
                   wEffects, wLast, sigPc, sweepVars, applyVars>>

\* deleteResourcesByLabel returns: the next kind, and os.Exit(0) after the last
CleanupNext ==
    /\ sigPc \in {"deletePolicy", "deleteClusterPolicy"}
    /\ sigList = <<>>
    /\ sigPc' = AfterKind(CleanupKind)
    /\ UNCHANGED <<ctrlVars, envOps, policies, gcVars, wEnv, config, registryLatest, lastFile,
                   wPc, wLatest, wChanged, wToApply, wApplied, wFailed, wWrote,
                   wEffects, wLast, sigList, sigFailed,
                   sweepVars, applyVars>>

\* the labels the watcher of another artifact stamps on its manifests
OtherArtifactLabels == PolicyLabels("kyverno-watcher", "v1", "ab", Checksum("s1"))

\* the watcher of another artifact applies a manifest of the same kind and
\* name: applyResource creates the object or replaces the existing one
OtherWorkerApplies(id) ==
    /\ EnvStep
    /\ policies[id] # Some([spec |-> "s1", labels |-> OtherArtifactLabels])
    /\ policies' = [policies EXCEPT ![id] =
                       Some([spec |-> "s1", labels |-> OtherArtifactLabels])]
    /\ UNCHANGED <<ctrlVars, gcVars, workerVars>>

----------------------------------------------------------------------------
(* Watcher: startup sweep of the managed pods *)

loopVars == <<wEnv, config, registryLatest, lastFile, wPc, wLatest, wChanged,
              wToApply, wApplied, wFailed, wWrote, wEffects, wLast, sigVars,
              applyVars>>

\* the label selector of reconcileManagedPods
HasWatcherLabels(p) ==
    /\ "app.kubernetes.io/managed-by" \in DOMAIN p.labels
    /\ p.labels["app.kubernetes.io/managed-by"] = "kyverno-artifact-operator"
    /\ "app.kubernetes.io/component" \in DOMAIN p.labels
    /\ p.labels["app.kubernetes.io/component"] = "watcher"

\* List of the pods of a namespace that match the selector; the pods of the
\* model all live in the operator's namespace
listManagedPods(ps, namespace) ==
    IF namespace = OperatorNamespace THEN { p \in ps : HasWatcherLabels(p) } ELSE {}

\* the items of a list response, one after the other
RECURSIVE PodListOf(_)
PodListOf(ps) ==
    IF ps = {} THEN <<>>
    ELSE LET first == CHOOSE p \in ps : TRUE
         IN  <<first>> \o PodListOf(ps \ {first})

\* reconcileManagedPods: the first container's image is not the expected one
outdated(pod, cfg) == pod.image # cfg.WatcherImage

\* the watcher process starts in the pod the controller created for artifact
\* a, with the environment of that pod
StartInPod ==
    /\ sweepPc = "none"
    /\ \E pod \in PodsNamed(pods, PodName("a")) :
          /\ HasWatcherLabels(pod)
          /\ wEnv' = ContainerEnv(pod)
          /\ config' = loadConfig(ContainerEnv(pod))
    /\ sweepPc' = "start"
    /\ UNCHANGED <<ctrlVars, envOps, policies, gcVars, registryLatest, lastFile, wPc,
                   wLatest, wChanged, wToApply, wApplied, wFailed, wWrote, wEffects,
                   wLast, sigVars, sweepList, applyVars>>

\* the watcher process is started by hand, with an environment of its own
StartByHand(env) ==
    /\ sweepPc = "none"
    /\ wEnv' = env
    /\ config' = loadConfig(env)
    /\ sweepPc' = "start"
    /\ UNCHANGED <<ctrlVars, envOps, policies, gcVars, registryLatest, lastFile, wPc,
                   wLatest, wChanged, wToApply, wApplied, wFailed, wWrote, wEffects,
                   wLast, sigVars, sweepList, applyVars>>

\* reconcileManagedPods up to the List: nothing to do without WATCHER_IMAGE or
\* POD_NAMESPACE; a failure to get the clients or to list is returned, and Run
\* logs it as a warning and goes on to the loop
SweepStart(clientsFail, listFails) ==
    /\ sweepPc = "start"
    /\ IF config.WatcherImage = "" \/ config.PodNamespace = ""
          \/ clientsFail \/ listFails
       THEN /\ sweepPc' = "done"
            /\ sweepList' = <<>>
       ELSE /\ sweepPc' = "delete"
            /\ sweepList' = PodListOf(listManagedPods(pods, config.PodNamespace))
    /\ UNCHANGED <<ctrlVars, envOps, policies, gcVars, loopVars>>

\* reconcileManagedPods looks at the next listed pod and deletes it by name
\* when its image is outdated; a failed Delete is logged and the loop goes on
SweepPod(deleteFails) ==
    /\ sweepPc = "delete"
    /\ sweepList # <<>>
    /\ LET pod == Head(sweepList)
           gone == IF outdated(pod, config) /\ ~deleteFails
                   THEN PodsNamed(pods, pod.name) ELSE {}
       IN  /\ pods' = pods \ gone
           /\ queue' = queue \cup UNION { OwnerRequests(q) : q \in gone }
    /\ sweepList' = Tail(sweepList)
    /\ UNCHANGED <<arts, watcherImage, nextUid, artifactCount, artifactsByPhase,
                   lastResult, envOps, policies, gcVars, loopVars, sweepPc>>

\* reconcileManagedPods returns and Run enters its loop
SweepEnd ==
    /\ sweepPc = "delete"
    /\ sweepList = <<>>
    /\ sweepPc' = "done"
    /\ UNCHANGED <<ctrlVars, envOps, policies, gcVars, loopVars, sweepList>>

----------------------------------------------------------------------------
(* Claims about the watcher *)

\* C4: within one cycle the last-applied-tag file is written only when every
\* file of toApply has been processed, and once it is written the cycle applies
\* nothing more; nothing else changes the file.
C4_WriteLast ==
    [][/\ (wWrote' /\ ~wWrote) => (wPc = "apply" /\ wToApply = <<>>)
       /\ (wWrote /\ wWrote') => (wApplied' = wApplied /\ wFailed' = wFailed)
       /\ lastFile' # lastFile => (wWrote' /\ ~wWrote)]_vars

\* a cycle with two files, one applied and one failed, has written the file
C4_Witness ==
    /\ wWrote
    /\ wPc = "sleep"
    /\ wApplied # {}
    /\ wFailed # {}
    /\ wApplied \cup wFailed = Files
    /\ lastFile = wLatest

\* C5: a cycle overwrites the last-applied-tag file if and only if it applied
\* at least one file to the cluster.
C5_Original == wPc = "sleep" => (wWrote <=> wApplied # {})

\* C6: the files whose application failed in one cycle are all handed to
\* applyManifests again by the next cycle that runs without an error.
C6_Original ==
    [][(wPc = "sleep" /\ wFailed # {} /\ wFailed' = {})
          => (wPc' = "apply" /\ wFailed \subseteq Range(wToApply'))]_vars

\* the step is one call of watchLoop up to applyManifests
WatchLoopStep == \E f1, f2, f3 \in BOOLEAN : watchLoop(f1, f2, f3)

\* C11: in pinned mode a cycle that finds the last-applied-tag file absent or
\* empty never sets isTagChanged, whatever tag the URL carries.
C11_PinnedColdStart ==
    [][(WatchLoopStep /\ ~config.PollForTagChanges /\ lastFile = "")
          => ~wChanged']_vars

\* a pinned watcher with a tag in its URL and no state file has run its
\* detection and goes on to apply through the checksum comparison
C11_Witness ==
    /\ ~config.PollForTagChanges
    /\ lastFile = ""
    /\ wPc = "apply"
    /\ wLatest = "v1"
    /\ ~wChanged

\* C12: a cycle in which the tag is unchanged and checksum reconciliation is
\* disabled acquires no client, pulls nothing, reads and writes nothing in the
\* cluster and leaves the last-applied-tag file as it is: the call returns
\* with the detection as its only work.
C12_ShortCircuit ==
    [][(WatchLoopStep /\ ~wChanged' /\ ~config.ReconcilePoliciesFromChecksum)
          => /\ wEffects' = {}
             /\ wPc' = "sleep"
             /\ policies' = policies
             /\ lastFile' = lastFile
             /\ ~wWrote']_vars

\* a polling watcher that applied v1 in an earlier cycle finds the tag unchanged
C12_Witness ==
    /\ wPc = "sleep"
    /\ wLast = "nochange"
    /\ config.PollForTagChanges
    /\ ~config.ReconcilePoliciesFromChecksum
    /\ lastFile = "v1"
    /\ wLatest = "v1"
    /\ wEffects = {}

\* the step applies file f to the cluster
AppliesFile(f) ==
    /\ wPc = "apply"
    /\ wToApply # <<>>
    /\ Head(wToApply) = f
    /\ f \in wApplied' \ wApplied

\* C13: when a cycle that applied something returns without error, the state
\* file holds exactly the tag whose manifests the cycle applied: every object
\* the cycle applies is the manifest of the cycle's tag latest, latest stays
\* the same throughout the cycle, and the final step writes latest.
C13_StateIsAppliedTag ==
    [][/\ \A f \in Files :
             AppliesFile(f) =>
                 /\ IsSet(policies'[FilePolicy(f)])
                 /\ Val(policies'[FilePolicy(f)]).spec = ManifestSpec(wLatest, f)
                 /\ Val(policies'[FilePolicy(f)]).labels.policy_version = wLatest
       /\ wPc = "apply" => wLatest' = wLatest
       /\ (wPc = "apply" /\ wPc' = "sleep" /\ wApplied # {}) => lastFile' = wLatest
      ]_vars

\* a cycle applied the manifests of the second version and recorded v2
C13_Witness ==
    /\ wPc = "sleep"
    /\ wLast = "done"
    /\ "f1" \in wApplied
    /\ lastFile = "v2"
    /\ IsSet(policies[FilePolicy("f1")])
    /\ Val(policies[FilePolicy("f1")]).labels.policy_version = "v2"
    /\ Val(policies[FilePolicy("f1")]).spec = "s2"

\* the files the running cycle has attempted or has still to attempt
Attempts(toApply, applied, failed) == Range(toApply) \cup applied \cup failed

\* C14: within a cycle no file of toApply is dropped: a step of the apply loop,
\* failed or not, moves exactly its file from the waiting ones to the attempted
\* ones and leaves the others waiting, and the loop ends only when none waits.
C14_FailureSkipsNothing ==
    [][wPc = "apply" =>
          /\ Attempts(wToApply', wApplied', wFailed')
                = Attempts(wToApply, wApplied, wFailed)
          /\ wToApply' # wToApply =>
                /\ wToApply' = Tail(wToApply)
                /\ Head(wToApply) \in (wApplied' \cup wFailed')
                /\ wPc' = "apply"
          /\ wPc' = "sleep" => wToApply = <<>>
      ]_vars

\* f2 came first and failed; f1 is still going to be attempted
C14_Witness ==
    /\ wPc = "apply"
    /\ wFailed = {"f2"}
    /\ wApplied = {}
    /\ wToApply = <<"f1">>

\* the cycle started with these failures meets one of them: tag detection
\* fails, or the cycle gets past the early return and client acquisition or the
\* pull fails
CycleFails(detectFails, clientsFail, pullFails) ==
    LET d == detectTag(config, registryLatest, lastFile, detectFails)
    IN  \/ d.err
        \/ /\ ~d.done
           /\ ~ShortCircuit(config, d)
           /\ clientsFail \/ pullFails

\* what a cycle without failures would do in the given state
NextAttempt(cfg, registry, last, ps) ==
    WatchPlan(cfg, detectTag(cfg, registry, last, FALSE), ps, FALSE, FALSE)

\* C15: a cycle in which tag detection, client acquisition or the pull fails
\* applies nothing and writes no state file, leaves the worker waiting for its
\* next poll (wPc = "sleep" is all watchLoop needs to run), and the attempt of
\* that next poll is the one this cycle would have made.
C15_FailedCycle ==
    [][\A f1, f2, f3 \in BOOLEAN :
          (watchLoop(f1, f2, f3) /\ CycleFails(f1, f2, f3)) =>
              /\ wLast' = "error"
              /\ policies' = policies
              /\ lastFile' = lastFile
              /\ wApplied' = {} /\ wToApply' = <<>> /\ ~wWrote'
              /\ wEffects' \cap {"apply", "write"} = {}
              /\ wPc' = "sleep"
              /\ NextAttempt(config', registryLatest', lastFile', policies')
                    = NextAttempt(config, registryLatest, lastFile, policies)
      ]_vars

\* a pull failed while a new tag was waiting behind an applied one
C15_Witness ==
    /\ wLast = "error"
    /\ wEffects = {"clients", "pull"}
    /\ wPc = "sleep"
    /\ lastFile = "v1"
    /\ registryLatest = "v2"

\* the policies of both kinds that carry artifact-name=<the watcher's artifact>
OwnPolicies(ps) ==
    listByLabel(ps, "Policy", config.ArtifactName)
    \cup listByLabel(ps, "ClusterPolicy", config.ArtifactName)

\* the step is the exit of a watcher that ran its cleanup
ExitsAfterCleanup ==
    /\ sigPc \notin {"running", "exited"}
    /\ sigPc' = "exited"

\* C21: when a watcher with deletePoliciesOnTermination exits after a
\* termination signal and none of the handler's API calls failed, no Policy of
\* any namespace and no ClusterPolicy labelled with its artifact is left; on
\* the way, each Delete the handler issues removes the item it was issued for.
C21_Original ==
    [][/\ \A deleteFails \in BOOLEAN :
            (/\ CleanupDelete(deleteFails)
             /\ ~deleteFails
             /\ Head(sigList).id \in OwnPolicies(policies))
            => ~IsSet(policies'[Head(sigList).id])
       /\ (ExitsAfterCleanup /\ ~sigFailed') => OwnPolicies(policies') = {}]_vars

\* C34: once a watcher with deletePoliciesOnTermination has exited through the
\* termination handler, with none of the handler's API calls failing, no
\* object labelled with its artifact remains in the cluster, wherever the main
\* loop was when the signal arrived.
C34_Original ==
    (/\ sigPc = "exited"
     /\ config.DeletePoliciesOnTermination
     /\ ~sigFailed)
    => OwnPolicies(policies) = {}

\* C22: every object that a step of the termination cleanup deletes or changes
\* carries artifact-name=<the watcher's own artifact> when the step is taken.
C22_Original ==
    [][\A deleteFails \in BOOLEAN :
          CleanupDelete(deleteFails) =>
              \A id \in PolicyIds :
                  policies'[id] # policies[id] => id \in OwnPolicies(policies)]_vars

C26_Original ==
    [][(/\ WatchLoopStep
        /\ config.PollInterval = 0
        /\ config.PollForTagChanges
        /\ ~config.ReconcilePoliciesFromChecksum
        /\ lastFile # "")
       => /\ "pull" \notin wEffects'
          /\ wPc' = "sleep"]_vars

\* the cluster holds every manifest of the artifact's tag as the watcher
\* applies it
ClusterHolds(tag) ==
    \A f \in Files : policies[FilePolicy(f)] = Some(LabelledManifest(config, tag, f))

\* C27: whenever the cluster holds every manifest of a tag exactly as applied,
\* the checksum comparison of the manifests pulled for that tag finds no file
\* to apply, and a checksum-reconciliation cycle on that tag applies nothing.
C27_Original ==
    [][\A tag \in Tags :
          ClusterHolds(tag) =>
              /\ checksumsChanged(PulledChecksums(tag), policies) = {}
              /\ \A f1, f2, f3 \in BOOLEAN :
                    (/\ watchLoop(f1, f2, f3)
                     /\ wLatest' = tag
                     /\ "compare" \in wEffects')
                    => wLast' = "uptodate" /\ wToApply' = <<>>]_vars

Drifted(ps, tag, f) ==
    \/ ~IsSet(ps[FilePolicy(f)])
    \/ Val(ps[FilePolicy(f)]).spec # ManifestSpec(tag, f)

C37_Original ==
    [][(FinishCycle /\ wChanged /\ wFailed = {} /\ wApplied # {})
          => \A id \in OwnPolicies(policies') :
                 Val(policies'[id]).labels.policy_version = wLatest]_vars

\* the string consists of hexadecimal digits
IsHex(str) ==
    \A i \in 1..Len(str) :
        SubSeq(str, i, i) \in {"0", "1", "2", "3", "4", "5", "6", "7", "8", "9",
                               "a", "b", "c", "d", "e", "f"}

\* the labels are those of an object the worker applied from the tag: managed-by,
\* the tag as policy-version and a checksum of 48 hexadecimal characters
TrackingLabels(labels, tag) ==
    /\ labels.managed_by = "kyverno-watcher"
    /\ labels.policy_version = tag
    /\ labels.policy_checksum # NIL
    /\ Len(labels.policy_checksum) = 48
    /\ IsHex(labels.policy_checksum)

SweepsPod == sweepPc = "delete" /\ sweepList # <<>> /\ sweepList' = Tail(sweepList)

\* C30 as stated: at worker startup with WATCHER_IMAGE and POD_NAMESPACE set,
\* every pod of the worker's namespace that carries the watcher labels and
\* whose image differs from WATCHER_IMAGE is deleted (unless the Delete call
\* fails), no pod whose image equals WATCHER_IMAGE is deleted, and a failed
\* deletion stops neither the sweep nor the worker.
C30_Original ==
    [][SweepsPod =>
          /\ config.WatcherImage # "" /\ config.PodNamespace # ""
          /\ \/ Head(sweepList).image = config.WatcherImage
             \/ PodsNamed(pods', Head(sweepList).name) = {}
             \/ pods' = pods
          /\ \A q \in pods \ pods' :
                 HasWatcherLabels(q) /\ q.image # config.WatcherImage
          /\ sweepPc' = "delete"
          /\ sigPc' # "exited"]_vars

----------------------------------------------------------------------------
(* Specification of the controller *)

\* the declaration with which artifacts are created in the GC model
GcArtifactSpec ==
    [url |-> Some("r/p"), pollingInterval |-> None, provider |-> None,
     deletePoliciesOnTermination |-> None, reconcilePoliciesFromChecksum |-> None,
     pollForTagChanges |-> None]

InitCluster ==
    /\ arts = [n \in ArtNames |-> None]
    /\ pods = {}
    /\ watcherImage = "img1"
    /\ queue = {}
    /\ nextUid = 1
    /\ artifactCount = 0
    /\ artifactsByPhase = [ph \in PhaseLabels |-> 0]
    /\ lastResult = Result(NIL, "none", FALSE)
    /\ envOps = 0
    /\ policies = [id \in PolicyIds |-> None]

InitGC ==
    /\ orphanedPolicies = <<>>
    /\ gcPc = "idle"
    /\ gcList = <<>>
    /\ gcLast = GcEvent(NoPolicy, "none", FALSE)
    /\ firstObserved = [id \in PolicyIds |-> "never"]

InitWorker ==
    /\ registryLatest = "v1"
    /\ lastFile = ""
    /\ wPc = "sleep"
    /\ wLatest = ""
    /\ wChanged = FALSE
    /\ wToApply = <<>>
    /\ wApplied = {}
    /\ wFailed = {}
    /\ wWrote = FALSE
    /\ wEffects = {}
    /\ wLast = "none"
    /\ sigPc = "running"
    /\ sigList = <<>>
    /\ sigFailed = FALSE
    /\ sweepPc = "done"
    /\ sweepList = <<>>
    /\ rv = [id \in PolicyIds |-> 0]
    /\ wGot = None

\* the controller and GC models leave the watcher aside, with one configuration
Init ==
    /\ InitCluster
    /\ InitGC
    /\ InitWorker
    /\ wEnv = PodEnv("a", GcArtifactSpec, "img1")
    /\ config = loadConfig(wEnv)

InitCtrl == Init

NextCtrl ==
    \/ \E n \in ArtNames : Reconcile(n)
    \/ \E n \in ArtNames, s \in CreateSpecs : CreateArtifact(n, s)
    \/ \E n \in ArtNames, f \in SpecFields : \E v \in FieldValues(f) : EditArtifact(n, f, v)
    \/ \E n \in ArtNames : DeleteArtifact(n)
    \/ \E p \in pods : CascadeDelete(p)
    \/ \E p \in pods : DeletePod(p)
    \/ \E p \in pods, ph \in PodPhases : PodPhaseChange(p, ph)
    \/ \E img \in Images : UpgradeOperator(img)

SpecCtrl == InitCtrl /\ [][NextCtrl]_vars

InitGCSpec == Init

NextGC ==
    \/ \E f1, f2 \in BOOLEAN : GCStart(f1, f2)
    \/ \E f1, f2 \in BOOLEAN : GCVisit(f1, f2)
    \/ \E f1, f2, f3 \in BOOLEAN : GCRecheck(f1, f2, f3)
    \/ GCEnd
    \/ \E id \in PolicyIds, l \in GcPolicyLabels : ApplyPolicy(id, l)
    \/ \E id \in PolicyIds : RemovePolicy(id)
    \/ \E n \in ArtNames : CreateArtifact(n, GcArtifactSpec)
    \/ \E n \in ArtNames : DeleteArtifact(n)
    \/ \E n \in ArtNames : Reconcile(n)
    \/ \E p \in pods : CascadeDelete(p)
    \/ \E p \in pods, ph \in {"Running", "Failed"} : PodPhaseChange(p, ph)

SpecGC == InitGCSpec /\ [][NextGC]_vars

InitWatcher ==
    /\ InitCluster
    /\ InitGC
    /\ InitWorker
    /\ wEnv \in WatcherEnvs
    /\ config = loadConfig(wEnv)

NextWatcher ==
    \/ \E f1, f2, f3 \in BOOLEAN : watchLoop(f1, f2, f3)
    \/ \E fails \in BOOLEAN : ApplyFile(fails)
    \/ FinishCycle
    \/ \E t \in Tags : PublishTag(t)
    \/ \E id \in PolicyIds : RemovePolicy(id)
    \/ \E id \in PolicyIds : TamperPolicy(id)

SpecWatcher == InitWatcher /\ [][NextWatcher]_vars

\* a watcher whose registry and cluster calls all succeed: Run's loop calls
\* watchLoop again and again, and a cycle once begun runs to its end
NextHealthy ==
    \/ watchLoop(FALSE, FALSE, FALSE)
    \/ ApplyFile(FALSE)
    \/ FinishCycle
    \/ \E t \in Tags : PublishTag(t)

FairSpecHealthy ==
    /\ InitWatcher
    /\ [][NextHealthy]_vars
    /\ WF_vars(watchLoop(FALSE, FALSE, FALSE))
    /\ WF_vars(ApplyFile(FALSE))
    /\ WF_vars(FinishCycle)

----------------------------------------------------------------------------
(* Specification of a watcher next to third parties that write its objects *)

\* the declarations of the watchers followed call by call
ApplySpecs ==
    [ url : {Some("r/p")},
      pollingInterval : {None},
      provider : {None},
      deletePoliciesOnTermination : {None},
      reconcilePoliciesFromChecksum : {None, Some(TRUE)},
      pollForTagChanges : {None} ]

InitApply ==
    /\ InitCluster
    /\ InitGC
    /\ InitWorker
    /\ wEnv \in { PodEnv("a", s, "img1") : s \in ApplySpecs }
    /\ config = loadConfig(wEnv)

NextApply ==
    \/ \E f1, f2, f3 \in BOOLEAN : watchLoop(f1, f2, f3)
    \/ ApplyGet
    \/ \E fails \in BOOLEAN : ApplyWrite(fails)
    \/ FinishCycle
    \/ \E t \in Tags : PublishTag(t)
    \/ \E id \in PolicyIds : ThirdPartyWrite(id)
    \/ \E id \in PolicyIds : ThirdPartyDelete(id)

SpecApply == InitApply /\ [][NextApply]_vars

----------------------------------------------------------------------------
(* Specification of a watcher whose artifact loses a file *)

NextPrune ==
    \/ \E f1, f2, f3 \in BOOLEAN : watchLoop(f1, f2, f3)
    \/ \E fails \in BOOLEAN : ApplyFile(fails)
    \/ FinishCycle
    \/ \E t \in AllTags : PublishTag(t)

SpecPrune == InitApply /\ [][NextPrune]_vars

----------------------------------------------------------------------------
(* Specification of a watcher that starts next to the controller *)

\* the environments of the watchers started by hand: without WATCHER_IMAGE or
\* without POD_NAMESPACE, or in a namespace other than the operator's
HandEnvs ==
    { [PodEnv("a", GcArtifactSpec, "img1") EXCEPT
          !.WATCHER_IMAGE = img, !.POD_NAMESPACE = ns] :
        img \in {"img2", NIL}, ns \in {"ns2", NIL} }
    \cup { [PodEnv("a", GcArtifactSpec, "img1") EXCEPT !.WATCHER_IMAGE = NIL] }

\* a pod of the namespace that is not a watcher pod
ForeignPod ==
    [ name |-> "other", uid |-> 0, labels |-> ("app" :> "other"),
      ownerReferences |-> <<>>, image |-> "img0",
      env |-> ProjectedEnv("a", GcArtifactSpec, "img0"), phase |-> "Running" ]

InitStartup ==
    /\ arts = [n \in ArtNames |-> None]
    /\ pods \in {{}, {ForeignPod}}
    /\ watcherImage = "img1"
    /\ queue = {}
    /\ nextUid = 1
    /\ artifactCount = 0
    /\ artifactsByPhase = [ph \in PhaseLabels |-> 0]
    /\ lastResult = Result(NIL, "none", FALSE)
    /\ envOps = 0
    /\ policies = [id \in PolicyIds |-> None]
    /\ InitGC
    /\ registryLatest = "v1"
    /\ lastFile = ""
    /\ wPc = "sleep"
    /\ wLatest = ""
    /\ wChanged = FALSE
    /\ wToApply = <<>>
    /\ wApplied = {}
    /\ wFailed = {}
    /\ wWrote = FALSE
    /\ wEffects = {}
    /\ wLast = "none"
    /\ sigPc = "running"
    /\ sigList = <<>>
    /\ sigFailed = FALSE
    /\ sweepPc = "none"
    /\ sweepList = <<>>
    /\ rv = [id \in PolicyIds |-> 0]
    /\ wGot = None
    /\ wEnv = PodEnv("a", GcArtifactSpec, "img1")
    /\ config = loadConfig(wEnv)

NextStartup ==
    \/ StartInPod
    \/ \E env \in HandEnvs : StartByHand(env)
    \/ \E f1, f2 \in BOOLEAN : SweepStart(f1, f2)
    \/ \E deleteFails \in BOOLEAN : SweepPod(deleteFails)
    \/ SweepEnd
    \/ \E f1, f2, f3 \in BOOLEAN : watchLoop(f1, f2, f3)
    \/ \E n \in ArtNames : CreateArtifact(n, GcArtifactSpec)
    \/ \E n \in ArtNames : Reconcile(n)
    \/ \E img \in Images : UpgradeOperator(img)

SpecStartup == InitStartup /\ [][NextStartup]_vars

----------------------------------------------------------------------------
(* Specification of a watcher that is terminated *)

\* the declarations of the terminated watcher: cleanup asked for or left out
CleanupSpecs ==
    [ url : {Some("r/p")},
      pollingInterval : {None},
      provider : {None},
      deletePoliciesOnTermination : {None, Some(TRUE)},
      reconcilePoliciesFromChecksum : {None},
      pollForTagChanges : {None} ]

CleanupEnvs == { PodEnv("a", s, "img1") : s \in CleanupSpecs }

CleanupConfigs == { loadConfig(e) : e \in CleanupEnvs }

InitCleanup ==
    /\ InitCluster
    /\ InitGC
    /\ InitWorker
    /\ wEnv \in CleanupEnvs
    /\ config = loadConfig(wEnv)

NextCleanup ==
    \/ \E f1, f2, f3 \in BOOLEAN : watchLoop(f1, f2, f3)
    \/ \E fails \in BOOLEAN : ApplyFile(fails)
    \/ FinishCycle
    \/ \E clientsFail \in BOOLEAN : Terminate(clientsFail)
    \/ \E listFails \in BOOLEAN : CleanupList(listFails)
    \/ \E deleteFails \in BOOLEAN : CleanupDelete(deleteFails)
    \/ CleanupNext
    \/ \E id \in PolicyIds : OtherWorkerApplies(id)
    \/ \E id \in PolicyIds : RemovePolicy(id)

SpecCleanup == InitCleanup /\ [][NextCleanup]_vars

\* the work queue hands every queued request to Reconcile
FairSpecCtrl ==
    SpecCtrl /\ \A n \in ArtNames : WF_vars(n \in queue /\ Reconcile(n))

----------------------------------------------------------------------------
(* Claims about the controller *)

Declared(n) == IsSet(arts[n])

ChildPods(n) == PodsNamed(pods, PodName(n))

OwnerShape(n, p) ==
    /\ Len(p.ownerReferences) = 1
    /\ p.ownerReferences[1].name = n
    /\ p.ownerReferences[1].controller
    /\ p.ownerReferences[1].blockOwnerDeletion

\* C1 as stated: every declared artifact has at most one pod with the
\* deterministic name, and that pod carries exactly one owner reference
\* (controller, blockOwnerDeletion) pointing at the declaration that exists now.
C1_Original ==
    \A n \in ArtNames :
        Declared(n) =>
            /\ Cardinality(ChildPods(n)) <= 1
            /\ \A p \in ChildPods(n) :
                  /\ OwnerShape(n, p)
                  /\ p.ownerReferences[1].uid = Val(arts[n]).uid

\* C1 amended: at most one pod has the deterministic name, and it carries
\* exactly one owner reference (controller, blockOwnerDeletion) naming the
\* artifact with the UID of the declaration that existed when the pod was
\* created; that is the present declaration unless the declaration was deleted
\* and created again after the pod.
C1_OwnedPod ==
    \A n \in ArtNames :
        /\ Cardinality(ChildPods(n)) <= 1
        /\ \A p \in ChildPods(n) :
              /\ OwnerShape(n, p)
              /\ p.ownerReferences[1].uid < p.uid
              /\ (Declared(n) /\ Val(arts[n]).uid < p.uid)
                    => p.ownerReferences[1].uid = Val(arts[n]).uid

C1_Witness ==
    \E n \in ArtNames :
        /\ Declared(n)
        /\ lastResult = Result(n, "kept", FALSE)
        /\ \E p \in ChildPods(n) : p.ownerReferences[1].uid = Val(arts[n]).uid

\* the five values of the drift rule, read from the pod as the claim words them
DriftFromProjection(a, p, image) ==
    \/ p.env["IMAGE_BASE"] # ProjectedUrl(a.spec)
    \/ p.env["POLL_INTERVAL"] # ProjectedInterval(a.spec)
    \/ p.env["PROVIDER"] # ProjectedProvider(a.spec)
    \/ (IF p.env["WATCHER_POLL_FOR_TAG_CHANGES_ENABLED"] = NIL THEN "true"
        ELSE p.env["WATCHER_POLL_FOR_TAG_CHANGES_ENABLED"])
           # ProjectedPollForTagChanges(a.spec)
    \/ p.image # image

StaleInterval(n) ==
    /\ Declared(n)
    /\ \E p \in ChildPods(n) :
          p.env["POLL_INTERVAL"] # ProjectedInterval(Val(arts[n]).spec)

EffectiveEnv(p) ==
    [ url |-> p.env["IMAGE_BASE"],
      interval |-> p.env["POLL_INTERVAL"],
      provider |-> p.env["PROVIDER"],
      pollForTagChanges |->
          IF p.env["WATCHER_POLL_FOR_TAG_CHANGES_ENABLED"] = NIL THEN "true"
          ELSE p.env["WATCHER_POLL_FOR_TAG_CHANGES_ENABLED"],
      deletePoliciesOnTermination |->
          IF p.env["WATCHER_DELETE_POLICIES_ON_TERMINATION"] = NIL THEN "false"
          ELSE p.env["WATCHER_DELETE_POLICIES_ON_TERMINATION"],
      reconcilePoliciesFromChecksum |->
          IF p.env["WATCHER_CHECKSUM_RECONCILIATION_ENABLED"] = NIL THEN "false"
          ELSE p.env["WATCHER_CHECKSUM_RECONCILIATION_ENABLED"] ]

EffectiveSpec(s) ==
    [ url |-> ProjectedUrl(s),
      interval |-> ProjectedInterval(s),
      provider |-> ProjectedProvider(s),
      pollForTagChanges |-> ProjectedPollForTagChanges(s),
      deletePoliciesOnTermination |->
          IF IsSet(s.deletePoliciesOnTermination)
          THEN FormatBool(Val(s.deletePoliciesOnTermination)) ELSE "false",
      reconcilePoliciesFromChecksum |->
          IF IsSet(s.reconcilePoliciesFromChecksum)
          THEN FormatBool(Val(s.reconcilePoliciesFromChecksum)) ELSE "false" ]

\* C9 as stated: a pod that a Reconcile call leaves in place has, for url,
\* polling interval, provider, pollForTagChanges, deletePoliciesOnTermination
\* and reconcilePoliciesFromChecksum, the value the current declaration
\* projects (an absent flag read as its default).
C9_LockStep ==
    [][ \A n \in ArtNames :
          (Reconcile(n) /\ Declared(n)) =>
              \A p \in ChildPods(n) \cap pods' :
                  EffectiveEnv(p) = EffectiveSpec(Val(arts[n]).spec)
      ]_vars

Podless(n) ==
    /\ Declared(n)
    /\ IsSet(Val(arts[n]).spec.url)
    /\ Val(Val(arts[n]).spec.url) # ""
    /\ ChildPods(n) = {}

NoUrl(n) ==
    /\ IsSet(arts[n])
    /\ ~IsSet(Val(arts[n]).spec.url) \/ Val(Val(arts[n]).spec.url) = ""

\* C23: every Reconcile call on an existing declaration whose url is unset or
\* empty returns an error and creates no pod, with or without a child pod.
C23_Original ==
    [][\A n \in ArtNames :
          (Reconcile(n) /\ NoUrl(n)) =>
              /\ lastResult'.err
              /\ pods' \subseteq pods]_vars

C31_Original ==
    [][\A n \in ArtNames :
          (Reconcile(n) /\ IsSet(arts[n]) /\ ~lastResult'.err)
          => /\ artifactCount' = CountArtifacts(arts')
             /\ artifactsByPhase' = CountByPhase(arts', pods')]_vars

\* C32: a Reconcile call for a request whose declared artifact does not exist
\* returns success, does not queue the request again, and neither creates nor
\* deletes a pod.
C32_NotFoundIsSuccess ==
    [][\A n \in ArtNames :
          (Reconcile(n) /\ ~IsSet(arts[n]))
          => /\ ~lastResult'.err
             /\ lastResult'.did = "notfound"
             /\ n \notin queue'
             /\ pods' = pods
             /\ nextUid' = nextUid]_vars

\* a call has just returned for a declaration that is gone while the pod
\* created for it is still there
C32_Witness ==
    \E n \in ArtNames :
        /\ ~IsSet(arts[n])
        /\ lastResult = Result(n, "notfound", FALSE)
        /\ PodsNamed(pods, PodName(n)) # {}
        /\ n \notin queue

\* C33: after a cold start (no state file, nothing applied yet) a worker whose
\* registry and cluster calls all succeed eventually applies the manifests of
\* its artifact, in every combination of pollForTagChanges and
\* reconcilePoliciesFromChecksum.
C33_Original == <>(wApplied = Files)

\* the step is applyResource's write for file f, sent after a third party has
\* written the object that Get had returned
StaleUpdate(f) ==
    /\ wPc = "apply"
    /\ wToApply # <<>>
    /\ Head(wToApply) = f
    /\ IsSet(wGot)
    /\ Val(wGot).found
    /\ IsSet(policies[FilePolicy(f)])
    /\ rv[FilePolicy(f)] # Val(wGot).resourceVersion
    /\ wGot' = None

\* C35: when a third party modifies an object between the worker's Get and its
\* Update, the Update carries the resourceVersion the worker read and is
\* rejected: the third party's write stays, the file counts as failed, and the
\* loop goes on with the remaining files as after any other failed file.
C35_StaleUpdateRejected ==
    [][\A f \in Files :
          StaleUpdate(f) =>
             /\ policies' = policies
             /\ rv' = rv
             /\ wFailed' = wFailed \cup {f}
             /\ wApplied' = wApplied
             /\ wToApply' = Tail(wToApply)
             /\ wPc' = "apply"]_vars

\* an Update of the first file was answered with Conflict, the third party's
\* spec is still in the cluster, and the cycle has applied the second file
C35_Witness ==
    /\ "conflict" \in wEffects
    /\ wFailed = {"f1"}
    /\ wApplied = {"f2"}
    /\ IsSet(policies[FilePolicy("f1")])
    /\ Val(policies[FilePolicy("f1")]).spec = "sx"
    /\ Val(policies[FilePolicy("f2")]) = LabelledManifest(config, wLatest, "f2")

\* the step is a re-check that finds the policy orphaned and whose delete
\* request fails
DeleteFails(id) ==
    /\ gcPc = "recheck"
    /\ Head(gcList).id = id
    /\ gcLast' = GcEvent(id, "deleteFailed", TRUE)

\* C40: when deleting a confirmed orphan fails, the policy's pending entry is
\* kept as it was; and a later visit of a policy that has a pending entry and
\* is found orphaned goes on to the re-check and the delete request in that
\* same cycle, without being recorded as pending anew.
C40_FailedDeleteRetried ==
    [][/\ \A id \in PolicyIds :
              DeleteFails(id) =>
                  /\ getPolicyKey(id) \in DOMAIN orphanedPolicies'
                  /\ orphanedPolicies' = orphanedPolicies
       /\ \A f1, f2 \in BOOLEAN :
              VisitsPendingOrphan(f1, f2) =>
                  /\ gcPc' = "recheck"
                  /\ gcLast' = GcEvent(Head(gcList).id, "recheck", TRUE)
                  /\ orphanedPolicies' = orphanedPolicies
       /\ \A f1, f2 \in BOOLEAN :
              (RechecksOrphan(f1, f2, FALSE) /\ IsSet(policies[Head(gcList).id]))
                  => ~IsSet(policies'[Head(gcList).id])
      ]_vars

\* a delete request for a policy failed in an earlier cycle; the policy is
\* still there, a new cycle has listed it and is about to visit it, and its
\* pending entry is the one it had
C40_Witness ==
    \E id \in PolicyIds :
        /\ gcPc = "visit"
        /\ gcList # <<>>
        /\ Head(gcList).id = id
        /\ gcLast = GcEvent(id, "deleteFailed", TRUE)
        /\ IsSet(policies[id])
        /\ getPolicyKey(id) \in DOMAIN orphanedPolicies
        /\ orphanedPolicies[getPolicyKey(id)] = "earlier"

\* C38: no step of a worker's startup sweep deletes a pod whose container
\* image equals the watcher image the controller is configured with at that
\* moment, also when workers created before and after a change of that image
\* exist side by side.
C38_Original ==
    [][SweepsPod => \A q \in pods \ pods' : q.image # watcherImage]_vars

====
